---- MODULE Spec2Model ----
(***************************************************************************)
(* A model of the GitHub pull-request monitor: the watch list (pr_list),   *)
(* the monitoring scheduler of PRMonitorGUI (main.py) with its background  *)
(* FetchThread, and the status client PRMonitor (github_api.py).           *)
(*                                                                         *)
(* Python strings that the program builds or parses (URLs, owner, repo and *)
(* PR number) are sequences of one-character strings, so that formatting   *)
(* and the regular expression of parse_pr_url are computed character by    *)
(* character.  Messages shown to the user are sequences of text pieces;    *)
(* the Chinese texts of the source are given by an English gloss.          *)
(***************************************************************************)
EXTENDS Integers, Sequences, FiniteSets, TLC

(***************************************************************************)
(* Bounds of the model.                                                    *)
(***************************************************************************)
\* most FetchThread objects that may be executing run() at the same time
MaxThreads == 2
\* most emitted signals waiting in the event queue of the GUI thread
MaxQueue == 1

(***************************************************************************)
(* Python values.                                                          *)
(***************************************************************************)
None == [py |-> "None"]

Get(d, k, default) == IF k \in DOMAIN d THEN d[k] ELSE default

Min(S) == CHOOSE m \in S : \A n \in S : m <= n

Max(S) == CHOOSE m \in S : \A n \in S : m >= n

(***************************************************************************)
(* Strings as sequences of characters.                                     *)
(***************************************************************************)
Digit == {"0", "1", "2", "3", "4", "5", "6", "7", "8", "9"}

Space == {" ", "\t", "\n"}

HttpLit == <<"h", "t", "t", "p">>

HostLit == <<":", "/", "/", "g", "i", "t", "h", "u", "b", ".", "c", "o", "m", "/">>

PullLit == <<"/", "p", "u", "l", "l", "/">>

\* str.strip(): drops the white space at both ends
strip(s) ==
    LET keep == {i \in 1..Len(s) : s[i] \notin Space}
    IN  IF keep = {} THEN <<>> ELSE SubSeq(s, Min(keep), Max(keep))

\* the literal lit stands in s at position p
MatchLit(s, p, lit) ==
    /\ p + Len(lit) - 1 <= Len(s)
    /\ SubSeq(s, p, p + Len(lit) - 1) = lit

\* first position at or after p that ends a greedy run of [^/]
NonSlashEnd(s, p) ==
    LET stops == {i \in p..Len(s) : s[i] = "/"}
    IN  IF stops = {} THEN Len(s) + 1 ELSE Min(stops)

\* first position at or after p that ends a greedy run of \d
DigitEnd(s, p) ==
    LET stops == {i \in p..Len(s) : s[i] \notin Digit}
    IN  IF stops = {} THEN Len(s) + 1 ELSE Min(stops)

\* f"https://github.com/{owner}/{repo}/pull/{pr_id}"
FormatUrl(owner, repo, pr_id) ==
    HttpLit \o <<"s">> \o HostLit \o owner \o <<"/">> \o repo \o PullLit \o pr_id

\* parse_pr_url with the pattern ending in (\d) rather than (\d+)
parse_pr_url_one_digit(url) ==
    LET u  == strip(url)
        p0 == IF MatchLit(u, 1, HttpLit \o <<"s">> \o HostLit)
                THEN Len(HttpLit) + 1 + Len(HostLit) + 1
              ELSE IF MatchLit(u, 1, HttpLit \o HostLit)
                THEN Len(HttpLit) + Len(HostLit) + 1
              ELSE 0
        e1 == NonSlashEnd(u, p0)
        p1 == e1 + 1
        e2 == NonSlashEnd(u, p1)
        p3 == e2 + Len(PullLit)
    IN  IF /\ p0 > 0
           /\ e1 > p0
           /\ e1 <= Len(u)
           /\ e2 > p1
           /\ MatchLit(u, e2, PullLit)
           /\ DigitEnd(u, p3) > p3
          THEN [owner |-> SubSeq(u, p0, e1 - 1),
                repo |-> SubSeq(u, p1, e2 - 1),
                pull_number |-> SubSeq(u, p3, p3)]
          ELSE None

\* re.match(r'https?://github\.com/([^/]+)/([^/]+)/pull/(\d+)', url.strip())
parse_pr_url(url) ==
    LET u  == strip(url)
        p0 == IF MatchLit(u, 1, HttpLit \o <<"s">> \o HostLit)
                THEN Len(HttpLit) + 1 + Len(HostLit) + 1
              ELSE IF MatchLit(u, 1, HttpLit \o HostLit)
                THEN Len(HttpLit) + Len(HostLit) + 1
              ELSE 0
        e1 == NonSlashEnd(u, p0)
        p1 == e1 + 1
        e2 == NonSlashEnd(u, p1)
        p3 == e2 + Len(PullLit)
        e3 == DigitEnd(u, p3)
    IN  IF /\ p0 > 0
           /\ e1 > p0
           /\ e1 <= Len(u)
           /\ e2 > p1
           /\ MatchLit(u, e2, PullLit)
           /\ e3 > p3
          THEN [owner |-> SubSeq(u, p0, e1 - 1),
                repo |-> SubSeq(u, p1, e2 - 1),
                pull_number |-> SubSeq(u, p3, e3 - 1)]
          ELSE None

(***************************************************************************)
(* PRMonitor (github_api.py): the status client.  A response of the remote *)
(* API is a record: kind "http" with a status code and a JSON body, or the *)
(* exception that requests raised (Timeout, ConnectionError, or another    *)
(* RequestException).  JSON objects are functions from keys to values, so  *)
(* that a missing key takes the default of dict.get.                       *)
(***************************************************************************)
EmptyDict == [k \in {} |-> ""]

\* the ISO time stamps that datetime.fromisoformat accepts, and strftime of each
IsoTimes == ("2024-05-01T10:00:00Z" :> "2024-05-01 10:00:00")

_format_time(time_str) ==
    IF time_str = "" THEN "N/A"
    ELSE IF time_str \in DOMAIN IsoTimes THEN IsoTimes[time_str]
    ELSE time_str

MsgNotFound == <<"PR does not exist or the repository is not accessible">>

MsgRateLimited == <<"API rate limit reached, try again later">>

MsgApiFailed(code) == <<"API request failed: ", ToString(code)>>

MsgTimeout == <<"request timed out, check the network connection">>

MsgConnection == <<"network connection failed">>

MsgRequest == <<"request failed: ", "RequestException">>

\* a get_pr_info that reports a timeout and a refused connection alike
get_pr_info_merged_network(response) ==
    IF response.kind = "http" THEN
        IF response.code = 404 THEN [ok |-> FALSE, error |-> MsgNotFound]
        ELSE IF response.code = 403 THEN [ok |-> FALSE, error |-> MsgRateLimited]
        ELSE IF response.code # 200 THEN [ok |-> FALSE, error |-> MsgApiFailed(response.code)]
        ELSE [ok |-> TRUE, json |-> response.json]
    ELSE IF response.kind = "Timeout" THEN [ok |-> FALSE, error |-> MsgConnection]
    ELSE IF response.kind = "ConnectionError" THEN [ok |-> FALSE, error |-> MsgConnection]
    ELSE [ok |-> FALSE, error |-> MsgRequest]

\* the JSON body, or the GitHubAPIError that get_pr_info raises
get_pr_info(response) ==
    IF response.kind = "http" THEN
        IF response.code = 404 THEN [ok |-> FALSE, error |-> MsgNotFound]
        ELSE IF response.code = 403 THEN [ok |-> FALSE, error |-> MsgRateLimited]
        ELSE IF response.code # 200 THEN [ok |-> FALSE, error |-> MsgApiFailed(response.code)]
        ELSE [ok |-> TRUE, json |-> response.json]
    ELSE IF response.kind = "Timeout" THEN [ok |-> FALSE, error |-> MsgTimeout]
    ELSE IF response.kind = "ConnectionError" THEN [ok |-> FALSE, error |-> MsgConnection]
    ELSE [ok |-> FALSE, error |-> MsgRequest]

_get_commit_status(response) ==
    IF response.kind = "http" /\ response.code = 200
      THEN Get(response.json, "state", "unknown")
      ELSE "unknown"

RECURSIVE latest_states(_)
\* the dict that the loop over the reviews builds: user login -> state of the
\* last review of that user that has both a login and a state
latest_states(reviews) ==
    IF reviews = <<>> THEN EmptyDict
    ELSE LET prev   == latest_states(SubSeq(reviews, 1, Len(reviews) - 1))
             review == reviews[Len(reviews)]
             user   == Get(Get(review, "user", EmptyDict), "login", "")
             state  == Get(review, "state", "")
         IN  IF user # "" /\ state # ""
               THEN [u \in DOMAIN prev \cup {user} |-> IF u = user THEN state ELSE prev[u]]
               ELSE prev

\* a reduction over all the reviews, superseded ones included
_get_review_status_all_reviews(response) ==
    IF response.kind = "http" /\ response.code = 200 THEN
        IF response.json = <<>> THEN "pending"
        ELSE LET values == {Get(response.json[i], "state", "") : i \in 1..Len(response.json)}
             IN  IF "CHANGES_REQUESTED" \in values THEN "changes_requested"
                 ELSE IF "APPROVED" \in values THEN "approved"
                 ELSE "pending"
    ELSE "unknown"

_get_review_status(response) ==
    IF response.kind = "http" /\ response.code = 200 THEN
        IF response.json = <<>> THEN "pending"
        ELSE LET latest == latest_states(response.json)
                 values == {latest[u] : u \in DOMAIN latest}
             IN  IF "CHANGES_REQUESTED" \in values THEN "changes_requested"
                 ELSE IF "APPROVED" \in values THEN "approved"
                 ELSE "pending"
    ELSE "unknown"

\* a get_pr_status that raises when the CI call or the review call fails
get_pr_status_strict(owner, repo, pull_number, net) ==
    LET info == get_pr_info(net.meta)
        ci   == get_pr_info(net.ci)
        rev  == get_pr_info(net.reviews)
    IN  IF ~info.ok THEN [ok |-> FALSE, error |-> info.error]
        ELSE IF ~ci.ok THEN [ok |-> FALSE, error |-> ci.error]
        ELSE IF ~rev.ok THEN [ok |-> FALSE, error |-> rev.error]
        ELSE [ok |-> TRUE,
              status |->
                [title |-> Get(info.json, "title", <<"N/A">>),
                 state |-> Get(info.json, "state", "unknown"),
                 merged |-> Get(info.json, "merged", FALSE),
                 author |-> Get(Get(info.json, "user", EmptyDict), "login", "N/A"),
                 created_at |-> _format_time(Get(info.json, "created_at", "")),
                 updated_at |-> _format_time(Get(info.json, "updated_at", "")),
                 mergeable |-> Get(info.json, "mergeable", "None"),
                 mergeable_state |-> Get(info.json, "mergeable_state", "unknown"),
                 draft |-> Get(info.json, "draft", FALSE),
                 url |-> Get(info.json, "html_url", <<>>),
                 ci_status |-> _get_commit_status(net.ci),
                 review_status |-> _get_review_status(net.reviews)]]

\* net holds the responses that the remote API gives to the three calls
\* (meta, ci, reviews); the result is the status dict or the raised error
get_pr_status(owner, repo, pull_number, net) ==
    LET info    == get_pr_info(net.meta)
        pr_info == info.json
    IN  IF ~info.ok THEN [ok |-> FALSE, error |-> info.error]
        ELSE [ok |-> TRUE,
              status |->
                [title |-> Get(pr_info, "title", <<"N/A">>),
                 state |-> Get(pr_info, "state", "unknown"),
                 merged |-> Get(pr_info, "merged", FALSE),
                 author |-> Get(Get(pr_info, "user", EmptyDict), "login", "N/A"),
                 created_at |-> _format_time(Get(pr_info, "created_at", "")),
                 updated_at |-> _format_time(Get(pr_info, "updated_at", "")),
                 mergeable |-> Get(pr_info, "mergeable", "None"),
                 mergeable_state |-> Get(pr_info, "mergeable_state", "unknown"),
                 draft |-> Get(pr_info, "draft", FALSE),
                 url |-> Get(pr_info, "html_url", <<>>),
                 ci_status |->
                    IF Get(Get(pr_info, "head", EmptyDict), "sha", "") # ""
                      THEN _get_commit_status(net.ci)
                      ELSE "unknown",
                 review_status |-> _get_review_status(net.reviews)]]

\* the request of a listing: f"{BASE_URL}/orgs/{owner}/repos" or /users/
ListingCall(scope, owner) == <<"/", scope, "/">> \o owner \o <<"/", "repos">>

\* [repo['name'] for repo in repos], or the KeyError of an item without name
RepoNames(repos) ==
    IF \A i \in 1..Len(repos) : "name" \in DOMAIN repos[i]
      THEN [ok |-> TRUE, names |-> [i \in 1..Len(repos) |-> repos[i].name]]
      ELSE [ok |-> FALSE, names |-> <<>>]

\* a get_user_repos without its try: an exception of a request, or of the
\* reading of the answer, escapes to the caller
get_user_repos_unguarded(owner, net) ==
    LET fallback == net.org.kind = "http" /\ net.org.code = 404
        response == IF fallback THEN net.user ELSE net.org
        calls    == IF fallback
                      THEN <<ListingCall("orgs", owner), ListingCall("users", owner)>>
                      ELSE <<ListingCall("orgs", owner)>>
    IN  IF response.kind # "http"
          THEN [raised |-> TRUE, calls |-> calls, repos |-> <<>>]
        ELSE IF response.code = 200
          THEN [raised |-> ~RepoNames(response.json).ok, calls |-> calls,
                repos |-> RepoNames(response.json).names]
        ELSE [raised |-> FALSE, calls |-> calls, repos |-> <<>>]

\* net holds the answers of the remote API to the listing of the
\* organization (org) and to the listing of the user (user); the result is
\* the requests issued, the list returned, and whether an exception escapes
\* ("except Exception" returns [] for every one)
get_user_repos(owner, net) ==
    LET fallback == net.org.kind = "http" /\ net.org.code = 404
        response == IF fallback THEN net.user ELSE net.org
        calls    == IF fallback
                      THEN <<ListingCall("orgs", owner), ListingCall("users", owner)>>
                      ELSE <<ListingCall("orgs", owner)>>
    IN  IF response.kind # "http"
          THEN [raised |-> FALSE, calls |-> calls, repos |-> <<>>]
        ELSE IF response.code = 200
          THEN [raised |-> FALSE, calls |-> calls,
                repos |-> RepoNames(response.json).names]
        ELSE [raised |-> FALSE, calls |-> calls, repos |-> <<>>]

(***************************************************************************)
(* PRMonitorGUI (main.py): the state of the application.                   *)
(***************************************************************************)
VARIABLES
    monitoring,         \* self.monitoring
    pr_list,            \* self.pr_list: the watch list, a sequence of dicts
    timer_active,       \* self.timer (the repeat timer) is running
    countdown_active,   \* self.countdown_timer is running
    remaining_seconds,  \* self.remaining_seconds
    interval,           \* seconds of the option selected in interval_combo
    last_refresh_time,  \* self.last_refresh_time
    fetch_thread,       \* self.fetch_thread: 0 for None, else the thread's id
    threads,            \* the FetchThreads executing run(): id -> position
    signals,            \* signals emitted by FetchThreads, queued to the GUI thread
    config_file,        \* the content of CONFIG_FILE on disk
    msg_box,            \* QMessageBox shown by the latest GUI handler, or NoDialog
    token_input,        \* self.token_input.text()
    authorization,      \* self.monitor.session.headers['Authorization'], <<>> if absent
    owner_combo,        \* the items of self.owner_combo
    repo_combo,         \* the items of self.repo_combo
    repo_loads,         \* the owners of the threads executing fetch_repos
    disk_writable,      \* open(CONFIG_FILE, 'w') and json.dump succeed
    requests            \* the requests that FetchThreads have sent, with their header

vars == <<monitoring, pr_list, timer_active, countdown_active, remaining_seconds,
          interval, last_refresh_time, fetch_thread, threads, signals,
          config_file, msg_box, token_input, authorization, owner_combo,
          repo_combo, repo_loads, disk_writable,
          requests>>

\* the widgets and the session header that the scheduler and the watch list
\* leave alone, the state of the disk, and the requests sent
settings == <<token_input, authorization, owner_combo, repo_combo, repo_loads,
              disk_writable,
              requests>>

NoDialog == <<>>

WarnNoPr == <<"add a PR to monitor first">>

WarnNoOwner == <<"enter a user or organization name">>

WarnNoRepo == <<"select a valid repository">>

WarnBadId == <<"enter a valid PR ID">>

WarnDuplicate == <<"this PR is already in the watch list">>

WarnNoSelection == <<"select the PR to delete first">>

InfoStartFirst == <<"start monitoring first">>

WarnOwnerExists == <<"this user or organization is already listed">>

InfoOwnerAdded(owner_text) == <<"added user or organization: ">> \o owner_text

InfoTokenSet == <<"GitHub token set">>

InfoTokenCleared == <<"token cleared">>

\* self.interval_options: the seconds of the options of interval_combo
interval_options == {10, 30, 60, 180, 300, 1800, 3600}

\* the option that interval_combo shows after construction ('30' seconds)
DefaultInterval == 30

\* datetime.now() formatted; the model has one clock reading
Now == "2024-05-01 10:00:05"

(***************************************************************************)
(* save_config and load_config.  The file is absent, or holds a JSON       *)
(* object.  An item of its pr_list is a URL string (the old format,        *)
(* t = "str"), an object (t = "dict") or any other JSON value.             *)
(***************************************************************************)
NoFile == [exists |-> FALSE]

\* the dict that save_config writes for one entry of pr_list
SavedPr(pr) ==
    LET pr_data == [url |-> pr.url, owner |-> pr.owner, repo |-> pr.repo,
                    pull_number |-> pr.pull_number]
        status  == pr.status
    IN  IF status # None
          THEN [t |-> "dict",
                d |-> pr_data @@
                      [cached_status |->
                        [title |-> Get(status, "title", <<>>),
                         author |-> Get(status, "author", ""),
                         state |-> Get(status, "state", ""),
                         merged |-> Get(status, "merged", FALSE),
                         ci_status |-> Get(status, "ci_status", "unknown"),
                         review_status |-> Get(status, "review_status", "unknown"),
                         updated_at |-> Get(status, "updated_at", "")]]]
          ELSE [t |-> "dict", d |-> pr_data]

\* the dict config that save_config builds from the state given
ConfigDict(token_text, list, ivl, owners, refresh) ==
    [token |-> strip(token_text),
     pr_list |-> [i \in 1..Len(list) |-> SavedPr(list[i])],
     interval |-> ivl,
     owner_list |-> owners,
     last_refresh_time |-> refresh]

\* the file that save_config leaves: the config written over the whole file,
\* or, when opening the file for writing raises, the file as it was (the
\* exception is caught and printed)
save_config(token_text, list, ivl, owners, refresh) ==
    IF disk_writable
      THEN [exists |-> TRUE,
            config |-> ConfigDict(token_text, list, ivl, owners, refresh)]
      ELSE config_file

\* f'token {token}'
TokenLit == <<"t", "o", "k", "e", "n", " ">>

\* a PRMonitor.set_token without the branch that deletes the header
monitor_set_token_keep(token) == IF token # <<>> THEN TokenLit \o token ELSE authorization

\* PRMonitor.set_token: the Authorization header that it leaves
monitor_set_token(token) == IF token # <<>> THEN TokenLit \o token ELSE <<>>

\* the item that init_ui puts in owner_combo
DefaultOwner == <<"v", "l", "l", "m", "-", "p", "r", "o", "j", "e", "c", "t">>

\* the items of repo_combo that are not repositories
RepoLoading == <<"loading...">>

RepoNone == <<"no repository available">>

\* the entries that load_config appends for one item of the saved pr_list
LoadedPr(item) ==
    IF item.t = "str" THEN
        LET pr_info == parse_pr_url(item.s)
        IN  IF pr_info # None
              THEN <<pr_info @@ [url |-> item.s, status |-> None]>>
              ELSE <<>>
    ELSE IF item.t = "dict" THEN
        IF {"url", "owner", "repo", "pull_number"} \subseteq DOMAIN item.d THEN
            <<[url |-> item.d.url, owner |-> item.d.owner, repo |-> item.d.repo,
               pull_number |-> item.d.pull_number,
               status |->
                 IF "cached_status" \in DOMAIN item.d
                   THEN LET cached == item.d.cached_status
                        IN  [title |-> Get(cached, "title", <<>>),
                             author |-> Get(cached, "author", ""),
                             state |-> Get(cached, "state", ""),
                             merged |-> Get(cached, "merged", FALSE),
                             ci_status |-> Get(cached, "ci_status", "unknown"),
                             review_status |-> Get(cached, "review_status", "unknown"),
                             updated_at |-> Get(cached, "updated_at", ""),
                             created_at |-> "",
                             url |-> item.d.url]
                   ELSE None]>>
        ELSE
            LET url     == Get(item.d, "url", <<>>)
                pr_info == parse_pr_url(url)
            IN  IF url # <<>> /\ pr_info # None
                  THEN <<pr_info @@ [url |-> url, status |-> None]>>
                  ELSE <<>>
    ELSE <<>>

\* cached.get raises AttributeError: the item has the four keys and its
\* cached_status is null
LoadRaises(item) ==
    /\ item.t = "dict"
    /\ {"url", "owner", "repo", "pull_number", "cached_status"} \subseteq DOMAIN item.d
    /\ item.d.cached_status = None

\* the list that the loop over pr_list_data leaves: the loop ends at the
\* first item that raises
RECURSIVE LoadedList(_)
LoadedList(items) ==
    IF items = <<>> \/ LoadRaises(Head(items)) THEN <<>>
    ELSE LoadedPr(Head(items)) \o LoadedList(Tail(items))

\* the exception leaves the try block of load_config before the interval is read
LoadFails(items) == \E i \in 1..Len(items) : LoadRaises(items[i])

\* the state that load_config leaves after construction
load_config(file) ==
    IF ~file.exists
      THEN [pr_list |-> <<>>, interval |-> DefaultInterval, last_refresh_time |-> "None",
            token_input |-> <<>>, authorization |-> <<>>,
            owner_combo |-> <<DefaultOwner>>, repo_combo |-> <<>>, repo_loads |-> <<>>]
      ELSE LET config     == file.config
               saved      == Get(config, "interval", 30)
               token      == Get(config, "token", <<>>)
               owner_list == Get(config, "owner_list", <<>>)
               owners     == IF owner_list # <<>> THEN owner_list ELSE <<DefaultOwner>>
               items      == Get(config, "pr_list", <<>>)
               failed     == LoadFails(items)
               loading    == ~failed /\ owners[1] # <<>>
           IN  [pr_list |-> LoadedList(items),
                interval |-> IF ~failed /\ saved \in interval_options
                               THEN saved ELSE DefaultInterval,
                last_refresh_time |-> IF failed THEN "None"
                                      ELSE Get(config, "last_refresh_time", "None"),
                token_input |-> token,
                authorization |-> IF token # <<>> THEN monitor_set_token(token) ELSE <<>>,
                owner_combo |-> owners,
                repo_combo |-> IF loading THEN <<RepoLoading>> ELSE <<>>,
                repo_loads |-> IF loading THEN <<owners[1]>> ELSE <<>>]

(***************************************************************************)
(* The inputs of the model: what the user types and selects, what the      *)
(* remote API answers, and the configuration file found at start-up.       *)
(***************************************************************************)
Owners == {<<"o">>}

Repos == {<<"r">>}

PrIds == {<<"1">>, <<"2">>, <<"x">>}

Url1 == FormatUrl(<<"o">>, <<"r">>, <<"1">>)

Url2 == FormatUrl(<<"o">>, <<"r">>, <<"2">>)

Http(code, json) == [kind |-> "http", code |-> code, json |-> json]

PrBody ==
    [title |-> <<"T">>, state |-> "open", user |-> [login |-> "alice"],
     updated_at |-> "2024-05-01T10:00:00Z", head |-> [sha |-> "abc"]]

NetOk ==
    [meta |-> Http(200, PrBody),
     ci |-> Http(200, [state |-> "success"]),
     reviews |-> Http(200, <<[user |-> [login |-> "bob"], state |-> "APPROVED"]>>)]

NetNotFound ==
    [meta |-> Http(404, [message |-> "Not Found"]),
     ci |-> Http(404, [message |-> "Not Found"]),
     reviews |-> Http(404, [message |-> "Not Found"])]

\* the answers of the remote API to one get_pr_status
Nets == {NetOk, NetNotFound}

\* a pull request as the remote API describes it, and one that has no head
PrBodyFull ==
    [title |-> <<"F">>, state |-> "open", merged |-> FALSE,
     user |-> [login |-> "carol"], created_at |-> "2024-05-01T10:00:00Z",
     updated_at |-> "2024-05-01T10:00:00Z", mergeable |-> "True",
     mergeable_state |-> "clean", draft |-> TRUE, html_url |-> Url2,
     head |-> [sha |-> "abc"]]

PrBodyNoSha == [title |-> <<"U">>, state |-> "closed", merged |-> TRUE]

\* a response that is not HTTP: the exception that requests raises
Raised(exception) == [kind |-> exception]

NoBody == [message |-> "error"]

\* the outcomes of one call when it does not answer 200
Failures ==
    {Http(404, NoBody), Http(403, NoBody), Http(500, NoBody),
     Raised("Timeout"), Raised("ConnectionError"), Raised("RequestException")}

MetaResponses == {Http(200, PrBodyFull), Http(200, PrBodyNoSha)} \cup Failures

CiResponses ==
    {Http(200, [state |-> "success"]), Http(200, [state |-> "failure"])} \cup Failures

Review(login, state) == [user |-> [login |-> login], state |-> state]

ReviewResponses ==
    {Http(200, <<>>), Http(200, <<Review("bob", "APPROVED")>>)} \cup Failures

\* the answers to one get_pr_status, each call failing in each way
StatusNets ==
    {[meta |-> m, ci |-> c, reviews |-> r] :
        m \in MetaResponses, c \in CiResponses, r \in ReviewResponses}

\* most reviews in the answer of the review call
MaxReviews == 3

Reviews ==
    {Review(login, state) :
        login \in {"alice", "bob"},
        state \in {"APPROVED", "CHANGES_REQUESTED", "COMMENTED"}}

\* the answers to one get_pr_status with every list of up to MaxReviews reviews
ReviewNets ==
    {[meta |-> Http(200, PrBodyFull), ci |-> Http(200, [state |-> "success"]),
      reviews |-> Http(200, reviews)] :
        reviews \in UNION {[1..k -> Reviews] : k \in 0..MaxReviews}}

ClientNets == StatusNets \cup ReviewNets

\* the texts that the user types in token_input
TokenTexts == {<<>>, <<"t">>}

\* a file with an entry in the old format (a URL string) and a structured
\* entry, a token and two owners
CfgMixed ==
    [exists |-> TRUE,
     config |-> [token |-> <<"t">>,
                 pr_list |->
                   <<[t |-> "str", s |-> Url1],
                     [t |-> "dict",
                      d |-> [url |-> Url2, owner |-> <<"o">>, repo |-> <<"r">>,
                             pull_number |-> <<"2">>,
                             cached_status |->
                               [title |-> <<"T">>, author |-> "alice", state |-> "open",
                                merged |-> FALSE, ci_status |-> "success",
                                review_status |-> "approved",
                                updated_at |-> "2024-05-01 10:00:00"]]]>>,
                 interval |-> 60,
                 owner_list |-> <<DefaultOwner, <<"o">>>>,
                 last_refresh_time |-> Now]]

\* most threads of load_repos that may be executing fetch_repos
MaxLoads == 2

\* the texts of owner_combo that the user types or selects
OwnerTexts == {<<>>, <<"o">>, <<" ", "p">>}

OrgRepos == <<[name |-> <<"r">>, private |-> FALSE], [name |-> <<"s">>, private |-> FALSE]>>

UserRepos == <<[name |-> <<"u">>, private |-> FALSE]>>

\* a listing with an item that has no name
BadRepos == <<[name |-> <<"r">>, private |-> FALSE], [id |-> 7]>>

\* the answers to the two listings of one get_user_repos: every answer to
\* the listing of the organization, and every answer to the listing of the
\* user after the organization was not found
RepoNets ==
    {[org |-> o, user |-> Http(200, UserRepos)] :
        o \in {Http(200, OrgRepos), Http(200, <<>>), Http(200, BadRepos)} \cup Failures}
    \cup
    {[org |-> Http(404, NoBody), user |-> u] :
        u \in {Http(200, UserRepos), Http(200, <<>>), Http(200, BadRepos)} \cup Failures}

\* a file in the old format: one URL string, as the user once pasted it
CfgLegacy ==
    [exists |-> TRUE,
     config |-> [pr_list |-> <<[t |-> "str", s |-> HttpLit \o HostLit \o <<"o", "/", "r">> \o PullLit \o <<"1">>]>>,
                 interval |-> 10]]

\* a file as save_config writes it
CfgSaved ==
    [exists |-> TRUE,
     config |-> [pr_list |->
                   <<[t |-> "dict",
                      d |-> [url |-> Url2, owner |-> <<"o">>, repo |-> <<"r">>,
                             pull_number |-> <<"2">>,
                             cached_status |->
                               [title |-> <<"T">>, author |-> "alice", state |-> "open",
                                merged |-> FALSE, ci_status |-> "success",
                                review_status |-> "approved",
                                updated_at |-> "2024-05-01 10:00:00"]]]>>,
                 interval |-> 10,
                 last_refresh_time |-> Now]]

\* the files that the scheduler specification starts from
ConfigFiles == {NoFile, CfgSaved}

\* the files, and the PR IDs typed, of the specification of loaded lists
LoadFiles == {CfgLegacy}

LoadPrIds == {<<"1">>}

(***************************************************************************)
(* Construction: __init__ followed by load_config.                         *)
(***************************************************************************)
InitOn(files, disks) ==
    \E file \in files, writable \in disks :
        LET loaded == load_config(file)
        IN  /\ monitoring = FALSE
            /\ pr_list = loaded.pr_list
            /\ timer_active = FALSE
            /\ countdown_active = FALSE
            /\ remaining_seconds = 0
            /\ interval = loaded.interval
            /\ last_refresh_time = loaded.last_refresh_time
            /\ fetch_thread = 0
            /\ threads = <<>>
            /\ signals = <<>>
            /\ config_file = file
            /\ msg_box = NoDialog
            /\ token_input = loaded.token_input
            /\ authorization = loaded.authorization
            /\ owner_combo = loaded.owner_combo
            /\ repo_combo = loaded.repo_combo
            /\ repo_loads = loaded.repo_loads
            /\ disk_writable = writable
            /\ requests = <<>>

\* construction on a disk that can be written
InitWith(files) == InitOn(files, {TRUE})

Init == InitWith(ConfigFiles)

(***************************************************************************)
(* The watch list: add_pr and remove_pr.  Both buttons are disabled while  *)
(* monitoring (start_monitoring, stop_monitoring).                         *)
(***************************************************************************)
isdigit(text) == text # <<>> /\ \A i \in 1..Len(text) : text[i] \in Digit

\* an add_pr that puts the new entry at the head of the list
AppendPr_front(list, owner, repo, pr_id, net) ==
    LET result == get_pr_status(owner, repo, pr_id, net)
    IN  <<[owner |-> owner, repo |-> repo, pull_number |-> pr_id,
           url |-> FormatUrl(owner, repo, pr_id),
           status |-> IF result.ok THEN result.status ELSE None]>> \o list

\* an add_pr that gives the new entry an error status when the fetch fails
AppendPr_error_status(list, owner, repo, pr_id, net) ==
    LET result == get_pr_status(owner, repo, pr_id, net)
        url    == FormatUrl(owner, repo, pr_id)
    IN  Append(list, [owner |-> owner, repo |-> repo, pull_number |-> pr_id,
                      url |-> url,
                      status |-> IF result.ok THEN result.status
                                 ELSE [title |-> <<"error: ">> \o result.error,
                                       state |-> "error", merged |-> FALSE,
                                       author |-> "N/A", created_at |-> "N/A",
                                       updated_at |-> "N/A", ci_status |-> "unknown",
                                       review_status |-> "unknown", url |-> url]])

\* the list after add_pr has appended the new entry
AppendPr(list, owner, repo, pr_id, net) ==
    LET result == get_pr_status(owner, repo, pr_id, net)
    IN  Append(list, [owner |-> owner, repo |-> repo, pull_number |-> pr_id,
                      url |-> FormatUrl(owner, repo, pr_id),
                      status |-> IF result.ok THEN result.status ELSE None])

\* add_pr finds the URL built from the input in the list
AlreadyListed(list, owner, repo, pr_id) ==
    \E i \in 1..Len(list) : list[i].url = FormatUrl(owner, repo, pr_id)

\* an add_pr whose button stays enabled while monitoring
add_pr_enabled(owner, repo, pr_id, net) ==
    /\ owner # <<>> /\ repo # <<>> /\ isdigit(pr_id)
    /\ ~AlreadyListed(pr_list, owner, repo, pr_id)
    /\ pr_list' = AppendPr(pr_list, owner, repo, pr_id, net)
    /\ config_file' = save_config(token_input, pr_list', interval, owner_combo,
                                last_refresh_time)
    /\ msg_box' = NoDialog
    /\ UNCHANGED <<monitoring, timer_active, countdown_active, remaining_seconds,
                   interval, last_refresh_time, fetch_thread, threads, signals>>
    /\ UNCHANGED settings

add_pr(owner, repo, pr_id, net) ==
    /\ ~monitoring
    /\ IF owner = <<>> THEN
            /\ msg_box' = WarnNoOwner
            /\ UNCHANGED <<pr_list, config_file>>
       ELSE IF repo = <<>> \/ repo = RepoLoading \/ repo = RepoNone THEN
            /\ msg_box' = WarnNoRepo
            /\ UNCHANGED <<pr_list, config_file>>
       ELSE IF ~isdigit(pr_id) THEN
            /\ msg_box' = WarnBadId
            /\ UNCHANGED <<pr_list, config_file>>
       ELSE IF AlreadyListed(pr_list, owner, repo, pr_id) THEN
            /\ msg_box' = WarnDuplicate
            /\ UNCHANGED <<pr_list, config_file>>
       ELSE /\ pr_list' = AppendPr(pr_list, owner, repo, pr_id, net)
            /\ config_file' = save_config(token_input, pr_list', interval, owner_combo,
                                        last_refresh_time)
            /\ msg_box' = NoDialog
    /\ UNCHANGED <<monitoring, timer_active, countdown_active, remaining_seconds,
                   interval, last_refresh_time, fetch_thread, threads, signals>>
    /\ UNCHANGED settings

RECURSIVE DeleteRows_ascending(_, _)
\* remove_pr deleting the lowest row first, so that the later rows have shifted
DeleteRows_ascending(list, rows) ==
    IF rows = {} THEN list
    ELSE LET row == Min(rows)
             cut == IF row < Len(list)
                      THEN SubSeq(list, 1, row) \o SubSeq(list, row + 2, Len(list))
                      ELSE list
         IN  DeleteRows_ascending(cut, rows \ {row})

RECURSIVE DeleteRows(_, _)
\* for row in sorted(selected_rows, reverse=True):
\*     if row < len(self.pr_list): del self.pr_list[row]
DeleteRows(list, rows) ==
    IF rows = {} THEN list
    ELSE LET row == Max(rows)
             cut == IF row < Len(list)
                      THEN SubSeq(list, 1, row) \o SubSeq(list, row + 2, Len(list))
                      ELSE list
         IN  DeleteRows(cut, rows \ {row})

\* a remove_pr that deletes the rows only when the file has been written
remove_pr_saved_only(selected_rows) ==
    /\ ~monitoring
    /\ IF selected_rows = {} THEN
            /\ msg_box' = WarnNoSelection
            /\ UNCHANGED <<pr_list, config_file>>
       ELSE /\ pr_list' = IF disk_writable THEN DeleteRows(pr_list, selected_rows)
                          ELSE pr_list
            /\ config_file' = save_config(token_input, pr_list', interval, owner_combo,
                                          last_refresh_time)
            /\ msg_box' = NoDialog
    /\ UNCHANGED <<monitoring, timer_active, countdown_active, remaining_seconds,
                   interval, last_refresh_time, fetch_thread, threads, signals>>
    /\ UNCHANGED settings

\* selected_rows is the set of the (0-based) rows of the selected table items
remove_pr(selected_rows) ==
    /\ ~monitoring
    /\ IF selected_rows = {} THEN
            /\ msg_box' = WarnNoSelection
            /\ UNCHANGED <<pr_list, config_file>>
       ELSE /\ pr_list' = DeleteRows(pr_list, selected_rows)
            /\ config_file' = save_config(token_input, pr_list', interval, owner_combo,
                                        last_refresh_time)
            /\ msg_box' = NoDialog
    /\ UNCHANGED <<monitoring, timer_active, countdown_active, remaining_seconds,
                   interval, last_refresh_time, fetch_thread, threads, signals>>
    /\ UNCHANGED settings

\* the table is in single-selection mode and has one row per entry of pr_list
Selections == {{}} \cup {{row} : row \in 0..(Len(pr_list) - 1)}

(***************************************************************************)
(* The scheduler: start_monitoring, stop_monitoring, the repeat timer, the *)
(* countdown timer and manual_refresh.  fetch_and_display and              *)
(* update_countdown are called from several handlers, so they are          *)
(* operators from the state they read to the state they leave.             *)
(***************************************************************************)
\* QThread.isRunning() of self.fetch_thread
isRunning(thread, running) == thread \in DOMAIN running

\* a FetchThread that has just been started: its loop over pr_list is at item 0
NewThread == [idx |-> 0, pc |-> "iter", cur |-> None]

\* fetch_and_display without the test of isRunning: a tick starts a thread
\* whether or not the previous one has finished
fetch_and_display_unguarded(mon, list, remaining, ivl, thread, running) ==
    IF ~mon \/ list = <<>> THEN
        [remaining_seconds |-> remaining, fetch_thread |-> thread, threads |-> running]
    ELSE
        LET id == Min((1..MaxThreads) \ DOMAIN running)
        IN  [remaining_seconds |-> ivl, fetch_thread |-> id,
             threads |-> running @@ (id :> NewThread)]

\* fetch_and_display that resets the countdown before the test of isRunning
fetch_and_display_reset_first(mon, list, remaining, ivl, thread, running) ==
    IF ~mon \/ list = <<>> THEN
        [remaining_seconds |-> remaining, fetch_thread |-> thread, threads |-> running]
    ELSE IF thread # 0 /\ isRunning(thread, running) THEN
        [remaining_seconds |-> ivl, fetch_thread |-> thread, threads |-> running]
    ELSE
        LET id == Min((1..MaxThreads) \ DOMAIN running)
        IN  [remaining_seconds |-> ivl, fetch_thread |-> id,
             threads |-> running @@ (id :> NewThread)]

\* the state that fetch_and_display leaves
fetch_and_display(mon, list, remaining, ivl, thread, running) ==
    IF ~mon \/ list = <<>> THEN
        [remaining_seconds |-> remaining, fetch_thread |-> thread, threads |-> running]
    ELSE IF thread # 0 /\ isRunning(thread, running) THEN
        [remaining_seconds |-> remaining, fetch_thread |-> thread, threads |-> running]
    ELSE
        LET id == Min((1..MaxThreads) \ DOMAIN running)
        IN  [remaining_seconds |-> ivl, fetch_thread |-> id,
             threads |-> running @@ (id :> NewThread)]

\* the value of remaining_seconds that update_countdown leaves
update_countdown(mon, remaining) ==
    IF ~mon THEN remaining
    ELSE IF remaining - 1 < 0 THEN 0
    ELSE remaining - 1

\* the model can hold one more FetchThread
ThreadSlotFree == Cardinality(DOMAIN threads) < MaxThreads

\* start_monitoring without the test of the empty list
start_monitoring_unchecked ==
    /\ ~monitoring
    /\ ThreadSlotFree
    /\ LET fetched == fetch_and_display(TRUE, pr_list, remaining_seconds,
                                        interval, fetch_thread, threads)
       IN  /\ monitoring' = TRUE
           /\ fetch_thread' = fetched.fetch_thread
           /\ threads' = fetched.threads
           /\ timer_active' = TRUE
           /\ countdown_active' = TRUE
           /\ remaining_seconds' = update_countdown(TRUE, interval)
           /\ msg_box' = NoDialog
    /\ UNCHANGED <<pr_list, interval, last_refresh_time, signals, config_file>>
    /\ UNCHANGED settings

start_monitoring ==
    /\ ~monitoring
    /\ ThreadSlotFree
    /\ IF pr_list = <<>> THEN
            /\ msg_box' = WarnNoPr
            /\ UNCHANGED <<monitoring, timer_active, countdown_active,
                           remaining_seconds, fetch_thread, threads>>
       ELSE LET fetched == fetch_and_display(TRUE, pr_list, remaining_seconds,
                                             interval, fetch_thread, threads)
            IN  /\ monitoring' = TRUE
                /\ fetch_thread' = fetched.fetch_thread
                /\ threads' = fetched.threads
                /\ timer_active' = TRUE
                /\ countdown_active' = TRUE
                /\ remaining_seconds' = update_countdown(TRUE, interval)
                /\ msg_box' = NoDialog
    /\ UNCHANGED <<pr_list, interval, last_refresh_time, signals, config_file>>
    /\ UNCHANGED settings

stop_monitoring ==
    /\ monitoring
    /\ monitoring' = FALSE
    /\ timer_active' = FALSE
    /\ countdown_active' = FALSE
    /\ config_file' = save_config(token_input, pr_list, interval, owner_combo,
                                last_refresh_time)
    /\ msg_box' = NoDialog
    /\ UNCHANGED <<pr_list, remaining_seconds, interval, last_refresh_time,
                   fetch_thread, threads, signals>>
    /\ UNCHANGED settings

\* self.timer.timeout: the repeat timer fires
timer_timeout ==
    /\ timer_active
    /\ ThreadSlotFree
    /\ LET fetched == fetch_and_display(monitoring, pr_list, remaining_seconds,
                                        interval, fetch_thread, threads)
       IN  /\ remaining_seconds' = fetched.remaining_seconds
           /\ fetch_thread' = fetched.fetch_thread
           /\ threads' = fetched.threads
    /\ msg_box' = NoDialog
    /\ UNCHANGED <<monitoring, pr_list, timer_active, countdown_active, interval,
                   last_refresh_time, signals, config_file>>
    /\ UNCHANGED settings

\* self.countdown_timer.timeout: one second has passed
countdown_timeout ==
    /\ countdown_active
    /\ remaining_seconds' = update_countdown(monitoring, remaining_seconds)
    /\ msg_box' = NoDialog
    /\ UNCHANGED <<monitoring, pr_list, timer_active, countdown_active, interval,
                   last_refresh_time, fetch_thread, threads, signals, config_file>>
    /\ UNCHANGED settings

\* manual_refresh without its test: it calls fetch_and_display in any state
manual_refresh_unchecked ==
    /\ ThreadSlotFree
    /\ LET fetched == fetch_and_display(monitoring, pr_list, remaining_seconds,
                                        interval, fetch_thread, threads)
       IN  /\ remaining_seconds' = fetched.remaining_seconds
           /\ fetch_thread' = fetched.fetch_thread
           /\ threads' = fetched.threads
           /\ msg_box' = NoDialog
    /\ UNCHANGED <<monitoring, pr_list, timer_active, countdown_active, interval,
                   last_refresh_time, signals, config_file>>
    /\ UNCHANGED settings

manual_refresh ==
    /\ ThreadSlotFree
    /\ IF monitoring /\ pr_list # <<>> THEN
            LET fetched == fetch_and_display(monitoring, pr_list, remaining_seconds,
                                             interval, fetch_thread, threads)
            IN  /\ remaining_seconds' = fetched.remaining_seconds
                /\ fetch_thread' = fetched.fetch_thread
                /\ threads' = fetched.threads
                /\ msg_box' = NoDialog
       ELSE /\ msg_box' = InfoStartFirst
            /\ UNCHANGED <<remaining_seconds, fetch_thread, threads>>
    /\ UNCHANGED <<monitoring, pr_list, timer_active, countdown_active, interval,
                   last_refresh_time, signals, config_file>>
    /\ UNCHANGED settings

(***************************************************************************)
(* FetchThread.run: the loop "for pr_info in self.pr_list" reads the list  *)
(* of the GUI (the same list object) one index at a time; for each item it *)
(* calls get_pr_status and emits data_fetched or error_occurred, which Qt  *)
(* queues to the GUI thread.                                               *)
(***************************************************************************)
\* the loop takes the next item of the list, or ends and run() returns
thread_next(id) ==
    /\ id \in DOMAIN threads
    /\ threads[id].pc = "iter"
    /\ IF threads[id].idx < Len(pr_list)
         THEN LET pr == pr_list[threads[id].idx + 1]
              IN  threads' = [threads EXCEPT ![id] =
                                [idx |-> @.idx + 1, pc |-> "fetch",
                                 cur |-> [url |-> pr.url, owner |-> pr.owner,
                                          repo |-> pr.repo,
                                          pull_number |-> pr.pull_number]]]
         ELSE threads' = [i \in DOMAIN threads \ {id} |-> threads[i]]
    /\ UNCHANGED <<monitoring, pr_list, timer_active, countdown_active,
                   remaining_seconds, interval, last_refresh_time, fetch_thread,
                   signals, config_file, msg_box>>
    /\ UNCHANGED settings

\* the signal that the body of the loop emits for pr_info
Emitted(pr_info, net) ==
    LET result == get_pr_status(pr_info.owner, pr_info.repo, pr_info.pull_number, net)
    IN  IF result.ok
          THEN [sig |-> "data_fetched", url |-> pr_info.url,
                pr_status |-> result.status @@
                              [owner |-> pr_info.owner, repo |-> pr_info.repo,
                               pull_number |-> pr_info.pull_number]]
          ELSE [sig |-> "error_occurred", url |-> pr_info.url,
                error_msg |-> result.error]

\* a run() whose loop ends at the first failed fetch: the error is emitted
\* and the thread returns
thread_fetch_abort_on_error(id, net) ==
    /\ id \in DOMAIN threads
    /\ threads[id].pc = "fetch"
    /\ Len(signals) < MaxQueue
    /\ signals' = Append(signals, Emitted(threads[id].cur, net))
    /\ threads' = IF get_pr_info(net.meta).ok
                    THEN [threads EXCEPT ![id] = [idx |-> @.idx, pc |-> "iter", cur |-> None]]
                    ELSE [i \in DOMAIN threads \ {id} |-> threads[i]]
    /\ UNCHANGED <<monitoring, pr_list, timer_active, countdown_active,
                   remaining_seconds, interval, last_refresh_time, fetch_thread,
                   config_file, msg_box>>
    /\ UNCHANGED settings

thread_fetch(id, net) ==
    /\ id \in DOMAIN threads
    /\ threads[id].pc = "fetch"
    /\ Len(signals) < MaxQueue
    /\ signals' = Append(signals, Emitted(threads[id].cur, net))
    /\ threads' = [threads EXCEPT ![id] = [idx |-> @.idx, pc |-> "iter", cur |-> None]]
    /\ UNCHANGED <<monitoring, pr_list, timer_active, countdown_active,
                   remaining_seconds, interval, last_refresh_time, fetch_thread,
                   config_file, msg_box>>
    /\ UNCHANGED settings

(***************************************************************************)
(* The body of the loop of run() call by call: get_pr_status sends the     *)
(* request of get_pr_info, then that of _get_commit_status when the answer *)
(* has a head SHA, then that of _get_review_status.  Each session.get      *)
(* reads the headers of the session when it is called.                     *)
(***************************************************************************)
\* most requests in the log
MaxRequests == 6

\* the response of a call that get_pr_status did not make
NotCalled == Raised("NotCalled")

\* self.session.get(url, timeout=10) for the entry pr_info
Request(call, pr_info) == [call |-> call, url |-> pr_info.url, header |-> authorization]

\* a get_pr_status that asks for the commit status whatever the metadata holds
HasSha_always(response) == TRUE

\* pr_info.get('head', {}).get('sha')
HasSha(response) == Get(Get(response.json, "head", EmptyDict), "sha", "") # ""

thread_get_pr_info(id, response) ==
    /\ id \in DOMAIN threads
    /\ threads[id].pc = "fetch"
    /\ Len(requests) < MaxRequests
    /\ requests' = Append(requests, Request("pulls", threads[id].cur))
    /\ IF get_pr_info(response).ok
         THEN /\ threads' = [threads EXCEPT ![id] =
                                [idx |-> @.idx,
                                 pc |-> IF HasSha(response) THEN "ci" ELSE "reviews",
                                 cur |-> @.cur, meta |-> response, ci |-> NotCalled]]
              /\ UNCHANGED signals
         ELSE /\ Len(signals) < MaxQueue
              /\ signals' = Append(signals,
                                   Emitted(threads[id].cur,
                                           [meta |-> response, ci |-> NotCalled,
                                            reviews |-> NotCalled]))
              /\ threads' = [threads EXCEPT ![id] =
                                [idx |-> @.idx, pc |-> "iter", cur |-> None]]
    /\ UNCHANGED <<monitoring, pr_list, timer_active, countdown_active,
                   remaining_seconds, interval, last_refresh_time, fetch_thread,
                   config_file, msg_box, token_input, authorization, owner_combo,
                   repo_combo, repo_loads, disk_writable>>

thread_get_commit_status(id, response) ==
    /\ id \in DOMAIN threads
    /\ threads[id].pc = "ci"
    /\ Len(requests) < MaxRequests
    /\ requests' = Append(requests, Request("status", threads[id].cur))
    /\ threads' = [threads EXCEPT ![id] =
                     [idx |-> @.idx, pc |-> "reviews", cur |-> @.cur,
                      meta |-> @.meta, ci |-> response]]
    /\ UNCHANGED <<monitoring, pr_list, timer_active, countdown_active,
                   remaining_seconds, interval, last_refresh_time, fetch_thread,
                   signals, config_file, msg_box, token_input, authorization,
                   owner_combo, repo_combo, repo_loads, disk_writable>>

\* a run() that holds the results back until the last item of the list
thread_get_review_status_batched(id, response) ==
    /\ id \in DOMAIN threads
    /\ threads[id].pc = "reviews"
    /\ Len(requests) < MaxRequests
    /\ Len(signals) < MaxQueue
    /\ requests' = Append(requests, Request("reviews", threads[id].cur))
    /\ signals' = IF threads[id].idx < Len(pr_list) THEN signals
                  ELSE Append(signals,
                              Emitted(threads[id].cur,
                                      [meta |-> threads[id].meta, ci |-> threads[id].ci,
                                       reviews |-> response]))
    /\ threads' = [threads EXCEPT ![id] = [idx |-> @.idx, pc |-> "iter", cur |-> None]]
    /\ UNCHANGED <<monitoring, pr_list, timer_active, countdown_active,
                   remaining_seconds, interval, last_refresh_time, fetch_thread,
                   config_file, msg_box, token_input, authorization, owner_combo,
                   repo_combo, repo_loads, disk_writable>>

thread_get_review_status(id, response) ==
    /\ id \in DOMAIN threads
    /\ threads[id].pc = "reviews"
    /\ Len(requests) < MaxRequests
    /\ Len(signals) < MaxQueue
    /\ requests' = Append(requests, Request("reviews", threads[id].cur))
    /\ signals' = Append(signals,
                         Emitted(threads[id].cur,
                                 [meta |-> threads[id].meta, ci |-> threads[id].ci,
                                  reviews |-> response]))
    /\ threads' = [threads EXCEPT ![id] = [idx |-> @.idx, pc |-> "iter", cur |-> None]]
    /\ UNCHANGED <<monitoring, pr_list, timer_active, countdown_active,
                   remaining_seconds, interval, last_refresh_time, fetch_thread,
                   config_file, msg_box, token_input, authorization, owner_combo,
                   repo_combo, repo_loads, disk_writable>>

(***************************************************************************)
(* The slots of the signals, run by the GUI thread.                        *)
(***************************************************************************)
\* a slot that adds an entry for a result whose URL is not in the list
SetStatus_upsert(list, pr_url, status) ==
    LET found == {i \in 1..Len(list) : list[i].url = pr_url}
    IN  IF found = {}
          THEN Append(list, [owner |-> <<>>, repo |-> <<>>, pull_number |-> <<>>,
                             url |-> pr_url, status |-> status])
          ELSE [list EXCEPT ![Min(found)].status = status]

\* for pr in self.pr_list: if pr['url'] == pr_url: pr['status'] = ...; break
SetStatus(list, pr_url, status) ==
    LET found == {i \in 1..Len(list) : list[i].url = pr_url}
    IN  IF found = {} THEN list
        ELSE [list EXCEPT ![Min(found)].status = status]

\* an error status that keeps the state "unknown"
ErrorStatus_unknown_state(pr_url, error_msg) ==
    [title |-> <<"error: ">> \o error_msg, state |-> "unknown", merged |-> FALSE,
     author |-> "N/A", created_at |-> "N/A", updated_at |-> "N/A",
     ci_status |-> "unknown", review_status |-> "unknown", url |-> pr_url]

\* the status dict that on_pr_error builds
ErrorStatus(pr_url, error_msg) ==
    [title |-> <<"error: ">> \o error_msg, state |-> "error", merged |-> FALSE,
     author |-> "N/A", created_at |-> "N/A", updated_at |-> "N/A",
     ci_status |-> "unknown", review_status |-> "unknown", url |-> pr_url]

on_pr_data_fetched ==
    /\ signals # <<>>
    /\ Head(signals).sig = "data_fetched"
    /\ pr_list' = SetStatus(pr_list, Head(signals).url, Head(signals).pr_status)
    /\ last_refresh_time' = Now
    /\ config_file' = save_config(token_input, pr_list', interval, owner_combo,
                                last_refresh_time')
    /\ signals' = Tail(signals)
    /\ msg_box' = NoDialog
    /\ UNCHANGED <<monitoring, timer_active, countdown_active, remaining_seconds,
                   interval, fetch_thread, threads>>
    /\ UNCHANGED settings

\* a slot of error_occurred that takes the signal and leaves the entry alone
on_pr_error_dropped ==
    /\ signals # <<>>
    /\ Head(signals).sig = "error_occurred"
    /\ signals' = Tail(signals)
    /\ msg_box' = NoDialog
    /\ UNCHANGED <<monitoring, pr_list, timer_active, countdown_active,
                   remaining_seconds, interval, last_refresh_time, fetch_thread,
                   threads, config_file>>
    /\ UNCHANGED settings

on_pr_error ==
    /\ signals # <<>>
    /\ Head(signals).sig = "error_occurred"
    /\ pr_list' = SetStatus(pr_list, Head(signals).url,
                            ErrorStatus(Head(signals).url, Head(signals).error_msg))
    /\ signals' = Tail(signals)
    /\ msg_box' = NoDialog
    /\ UNCHANGED <<monitoring, timer_active, countdown_active, remaining_seconds,
                   interval, last_refresh_time, fetch_thread, threads, config_file>>
    /\ UNCHANGED settings

(***************************************************************************)
(* The token: the user edits the text of token_input, and the button runs  *)
(* set_token.                                                              *)
(***************************************************************************)
\* the user types text in token_input
edit_token(text) ==
    /\ token_input' = text
    /\ UNCHANGED <<monitoring, pr_list, timer_active, countdown_active,
                   remaining_seconds, interval, last_refresh_time, fetch_thread,
                   threads, signals, config_file, msg_box, authorization,
                   owner_combo, repo_combo, repo_loads, disk_writable,
                   requests>>

\* a set_token that saves the configuration in both branches
set_token_saving ==
    /\ authorization' = monitor_set_token(strip(token_input))
    /\ msg_box' = IF strip(token_input) # <<>> THEN InfoTokenSet ELSE InfoTokenCleared
    /\ config_file' = save_config(token_input, pr_list, interval, owner_combo,
                                  last_refresh_time)
    /\ UNCHANGED <<monitoring, pr_list, timer_active, countdown_active,
                   remaining_seconds, interval, last_refresh_time, fetch_thread,
                   threads, signals, token_input, owner_combo, repo_combo,
                   repo_loads, disk_writable,
                   requests>>

set_token ==
    /\ LET token == strip(token_input)
       IN  IF token # <<>> THEN
                /\ authorization' = monitor_set_token(token)
                /\ msg_box' = InfoTokenSet
                /\ config_file' = save_config(token_input, pr_list, interval,
                                              owner_combo, last_refresh_time)
           ELSE /\ authorization' = monitor_set_token(<<>>)
                /\ msg_box' = InfoTokenCleared
                /\ UNCHANGED config_file
    /\ UNCHANGED <<monitoring, pr_list, timer_active, countdown_active,
                   remaining_seconds, interval, last_refresh_time, fetch_thread,
                   threads, signals, token_input, owner_combo, repo_combo,
                   repo_loads, disk_writable,
                   requests>>

(***************************************************************************)
(* The repository list and the owner list: load_repos (the slot of         *)
(* owner_combo.currentTextChanged) starts a thread that calls              *)
(* get_user_repos and then has the GUI thread run _update_repo_combo.      *)
(***************************************************************************)
load_repos(owner) ==
    /\ Len(repo_loads) < MaxLoads
    /\ IF owner = <<>>
         THEN UNCHANGED <<repo_combo, repo_loads>>
         ELSE /\ repo_combo' = <<RepoLoading>>
              /\ repo_loads' = Append(repo_loads, owner)
    /\ msg_box' = NoDialog
    /\ UNCHANGED <<monitoring, pr_list, timer_active, countdown_active,
                   remaining_seconds, interval, last_refresh_time, fetch_thread,
                   threads, signals, config_file, token_input, authorization,
                   owner_combo, disk_writable,
                   requests>>

\* the items that _update_repo_combo leaves
_update_repo_combo(repos) == IF repos # <<>> THEN repos ELSE <<RepoNone>>

\* the thread of the load at position i ends: get_user_repos returns and
\* _update_repo_combo runs, or an exception ends the thread before that
fetch_repos(i, net) ==
    /\ i \in 1..Len(repo_loads)
    /\ LET result == get_user_repos(repo_loads[i], net)
       IN  repo_combo' = IF result.raised THEN repo_combo
                         ELSE _update_repo_combo(result.repos)
    /\ repo_loads' = SubSeq(repo_loads, 1, i - 1) \o SubSeq(repo_loads, i + 1, Len(repo_loads))
    /\ msg_box' = NoDialog
    /\ UNCHANGED <<monitoring, pr_list, timer_active, countdown_active,
                   remaining_seconds, interval, last_refresh_time, fetch_thread,
                   threads, signals, config_file, token_input, authorization,
                   owner_combo, disk_writable,
                   requests>>

\* owner_text is owner_combo.currentText()
add_owner(owner_text) ==
    /\ IF strip(owner_text) = <<>> THEN
            /\ msg_box' = WarnNoOwner
            /\ UNCHANGED <<owner_combo, config_file>>
       ELSE IF \E i \in 1..Len(owner_combo) : owner_combo[i] = strip(owner_text) THEN
            /\ msg_box' = WarnOwnerExists
            /\ UNCHANGED <<owner_combo, config_file>>
       ELSE /\ owner_combo' = Append(owner_combo, strip(owner_text))
            /\ config_file' = save_config(token_input, pr_list, interval, owner_combo',
                                          last_refresh_time)
            /\ msg_box' = InfoOwnerAdded(strip(owner_text))
    /\ UNCHANGED <<monitoring, pr_list, timer_active, countdown_active,
                   remaining_seconds, interval, last_refresh_time, fetch_thread,
                   threads, signals, token_input, authorization, repo_combo,
                   repo_loads, disk_writable,
                   requests>>

(***************************************************************************)
(* The application.  The countdown timer is left to NextCountdown: its     *)
(* slot changes remaining_seconds alone, which no guard reads.             *)
(***************************************************************************)
App(ids) ==
    \/ \E owner \in Owners, repo \in Repos, pr_id \in ids, net \in Nets :
            add_pr(owner, repo, pr_id, net)
    \/ \E selected_rows \in Selections : remove_pr(selected_rows)
    \/ start_monitoring
    \/ stop_monitoring
    \/ timer_timeout
    \/ manual_refresh
    \/ \E id \in 1..MaxThreads : thread_next(id)
    \/ \E id \in 1..MaxThreads, net \in Nets : thread_fetch(id, net)
    \/ on_pr_data_fetched
    \/ on_pr_error

Next == App(PrIds)

Spec == Init /\ [][Next]_vars

\* the application started from a file in the old format
InitLoad == InitWith(LoadFiles)

NextLoad == App(LoadPrIds)

SpecLoad == InitLoad /\ [][NextLoad]_vars

(***************************************************************************)
(* remove_pr as a function of the list and the set of selected rows: the   *)
(* lists are loaded from files in the old format, and every set of rows    *)
(* up to MaxRows, in range or not, is selected.                            *)
(***************************************************************************)
\* longest watch list, and highest row, of the specification of remove_pr
MaxRows == 3

Url3 == FormatUrl(<<"o">>, <<"r">>, <<"3">>)

SeqsUpTo(S, n) == UNION {[1..k -> S] : k \in 0..n}

RemoveFiles ==
    {[exists |-> TRUE,
      config |-> [pr_list |-> [i \in 1..Len(urls) |-> [t |-> "str", s |-> urls[i]]],
                  interval |-> 10]] : urls \in SeqsUpTo({Url1, Url2, Url3}, MaxRows)}

InitRemove == InitWith(RemoveFiles)

NextRemove == \E selected_rows \in SUBSET (0..MaxRows) : remove_pr(selected_rows)

SpecRemove == InitRemove /\ [][NextRemove]_vars

(***************************************************************************)
(* The status client under every answer of the remote API: the scheduler   *)
(* is started on the one PR of the file, and the fetch of the cycle that   *)
(* start begins draws the answers to its three calls from ClientNets.      *)
(***************************************************************************)
ClientFiles == {CfgSaved, CfgLegacy}

InitClient == InitWith(ClientFiles)

NextClient ==
    \/ start_monitoring
    \/ \E id \in 1..MaxThreads : thread_next(id)
    \/ \E id \in 1..MaxThreads, net \in ClientNets : thread_fetch(id, net)
    \/ on_pr_data_fetched
    \/ on_pr_error

SpecClient == InitClient /\ [][NextClient]_vars

(***************************************************************************)
(* The owner list and the repository list under every answer of the remote *)
(* API to the two listings.                                                *)
(***************************************************************************)
InitRepos == InitWith(ConfigFiles)

NextRepos ==
    \/ \E owner_text \in OwnerTexts : add_owner(owner_text)
    \/ \E owner \in OwnerTexts : load_repos(owner)
    \/ \E i \in 1..MaxLoads, net \in RepoNets : fetch_repos(i, net)

SpecRepos == InitRepos /\ [][NextRepos]_vars

(***************************************************************************)
(* The configuration file: the application is started from a file with an  *)
(* entry of each format, on a disk that can be written or on one that      *)
(* cannot, and every handler that calls save_config runs.                  *)
(***************************************************************************)
ConfigSetFiles == {CfgMixed}

InitConfig == InitOn(ConfigSetFiles, BOOLEAN)

NextConfig ==
    \/ \E text \in TokenTexts : edit_token(text)
    \/ set_token
    \/ \E owner \in Owners, repo \in Repos, pr_id \in LoadPrIds, net \in Nets :
            add_pr(owner, repo, pr_id, net)
    \/ \E selected_rows \in Selections : remove_pr(selected_rows)
    \/ start_monitoring
    \/ stop_monitoring
    \/ \E id \in 1..MaxThreads : thread_next(id)
    \/ \E id \in 1..MaxThreads, net \in Nets : thread_fetch(id, net)
    \/ on_pr_data_fetched
    \/ on_pr_error

SpecConfig == InitConfig /\ [][NextConfig]_vars

(***************************************************************************)
(* load_config on files written by hand or by another version: the items   *)
(* of pr_list are URL strings, objects, and JSON values that are neither.  *)
(***************************************************************************)
\* most items in the pr_list of such a file
MaxItems == 3

\* an object whose cached_status is null
NullCachedItem ==
    [t |-> "dict",
     d |-> [url |-> Url3, owner |-> <<"o">>, repo |-> <<"r">>, pull_number |-> <<"3">>,
            cached_status |-> None]]

LoadItems ==
    {[t |-> "str", s |-> Url1],
     [t |-> "str", s |-> <<"x">>],
     [t |-> "dict",
      d |-> [url |-> Url2, owner |-> <<"o">>, repo |-> <<"r">>, pull_number |-> <<"2">>]],
     [t |-> "other"],
     NullCachedItem}

ItemFiles ==
    {[exists |-> TRUE,
      config |-> [pr_list |-> items, interval |-> 60, last_refresh_time |-> Now]] :
        items \in SeqsUpTo(LoadItems, MaxItems)}

InitItems == InitWith(ItemFiles)

NextItems ==
    \/ start_monitoring
    \/ stop_monitoring

SpecItems == InitItems /\ [][NextItems]_vars

(***************************************************************************)
(* parse_pr_url and the URL that add_pr builds, on lists loaded from one   *)
(* URL string and extended by add_pr with every name and number.           *)
(***************************************************************************)
\* longest watch list of this specification
MaxUrls == 2

\* the owners and repositories, and the PR IDs, typed or found in a file
UrlNames == {<<"o">>, <<"a", "-", "b">>, <<"a", "/", "b">>}

UrlNumbers == {<<"1">>, <<"2", "0">>, <<"x">>}

\* the URL strings of the files: the URL of every identity, and the same
\* URL with http, with a path after the number and with white space around
UrlStrings ==
    UNION {{FormatUrl(o, r, n),
            HttpLit \o HostLit \o o \o <<"/">> \o r \o PullLit \o n,
            FormatUrl(o, r, n) \o <<"/", "f">>,
            <<" ">> \o FormatUrl(o, r, n) \o <<" ">>} :
                o \in UrlNames, r \in {<<"r">>}, n \in UrlNumbers}

UrlFiles ==
    {NoFile} \cup
    {[exists |-> TRUE, config |-> [pr_list |-> <<[t |-> "str", s |-> url]>>]] :
        url \in UrlStrings}

InitUrl == InitWith(UrlFiles)

NextUrl ==
    \/ \E owner \in UrlNames, repo \in UrlNames, pr_id \in UrlNumbers :
            /\ Len(pr_list) < MaxUrls
            /\ add_pr(owner, repo, pr_id, NetNotFound)
    \/ \E selected_rows \in Selections : remove_pr(selected_rows)

SpecUrl == InitUrl /\ [][NextUrl]_vars

(***************************************************************************)
(* The session of the status client: one fetch cycle over the two entries  *)
(* of the file, call by call, while the user edits and sets the token.     *)
(***************************************************************************)
SessionFiles == {CfgMixed}

SessionMeta == {Http(200, PrBodyFull), Http(200, PrBodyNoSha), Http(404, NoBody)}

SessionCi == {Http(200, [state |-> "success"]), Raised("Timeout")}

SessionReviews == {Http(200, <<Review("bob", "APPROVED")>>), Http(500, NoBody)}

InitSession == InitWith(SessionFiles)

NextSession ==
    \/ \E text \in TokenTexts : edit_token(text)
    \/ set_token
    \/ start_monitoring
    \/ \E id \in 1..MaxThreads : thread_next(id)
    \/ \E id \in 1..MaxThreads, response \in SessionMeta : thread_get_pr_info(id, response)
    \/ \E id \in 1..MaxThreads, response \in SessionCi :
            thread_get_commit_status(id, response)
    \/ \E id \in 1..MaxThreads, response \in SessionReviews :
            thread_get_review_status(id, response)
    \/ on_pr_data_fetched
    \/ on_pr_error

SpecSession == InitSession /\ [][NextSession]_vars

(***************************************************************************)
(* One fetch cycle, call by call, that the user stops while it runs: the   *)
(* add and remove buttons are enabled again and the thread is still in its *)
(* loop over self.pr_list.  A cycle starts only while no request has been  *)
(* sent, so that the requests sent are those of one cycle.                 *)
(***************************************************************************)
DrainFiles == {CfgMixed}

DrainMeta == {Http(200, PrBodyFull), Http(404, NoBody)}

InitDrain == InitWith(DrainFiles)

NextDrain ==
    \/ \E owner \in Owners, repo \in Repos, pr_id \in LoadPrIds :
            add_pr(owner, repo, pr_id, NetNotFound)
    \/ \E selected_rows \in Selections : remove_pr(selected_rows)
    \/ requests = <<>> /\ start_monitoring
    \/ stop_monitoring
    \/ \E id \in 1..MaxThreads : thread_next(id)
    \/ \E id \in 1..MaxThreads, response \in DrainMeta : thread_get_pr_info(id, response)
    \/ \E id \in 1..MaxThreads :
            thread_get_commit_status(id, Http(200, [state |-> "success"]))
    \/ \E id \in 1..MaxThreads : thread_get_review_status(id, Http(200, <<>>))
    \/ on_pr_data_fetched
    \/ on_pr_error

SpecDrain == InitDrain /\ [][NextDrain]_vars

(***************************************************************************)
(* The countdown: the scheduler on the one entry of a saved file, with the *)
(* countdown timer firing every second between the other events.           *)
(***************************************************************************)
CountdownFiles == {CfgSaved}

InitCountdown == InitWith(CountdownFiles)

NextCountdown ==
    \/ start_monitoring
    \/ stop_monitoring
    \/ timer_timeout
    \/ countdown_timeout
    \/ manual_refresh
    \/ \E id \in 1..MaxThreads : thread_next(id)
    \/ \E id \in 1..MaxThreads : thread_fetch(id, NetOk)
    \/ on_pr_data_fetched

SpecCountdown == InitCountdown /\ [][NextCountdown]_vars

(***************************************************************************)
(* Progress.  The application is started from a file of two URL strings,   *)
(* whose entries have no status.  A FetchThread that is started runs: the  *)
(* operating system schedules it and every call of requests returns or     *)
(* times out (timeout=10).  The event loop of the GUI thread delivers      *)
(* every queued signal and every timeout of the repeat timer.  What the    *)
(* user does is under no fairness.                                         *)
(***************************************************************************)
CfgTwo ==
    [exists |-> TRUE,
     config |-> [pr_list |-> <<[t |-> "str", s |-> Url1], [t |-> "str", s |-> Url2]>>,
                 interval |-> 10]]

ProgressFiles == {CfgTwo}

InitProgress == InitWith(ProgressFiles)

NextProgress ==
    \/ \E selected_rows \in Selections : remove_pr(selected_rows)
    \/ start_monitoring
    \/ stop_monitoring
    \/ timer_timeout
    \/ manual_refresh
    \/ \E id \in 1..MaxThreads : thread_next(id)
    \/ \E id \in 1..MaxThreads, net \in Nets : thread_fetch(id, net)
    \/ on_pr_data_fetched
    \/ on_pr_error

Fairness ==
    /\ \A id \in 1..MaxThreads : WF_vars(thread_next(id))
    /\ \A id \in 1..MaxThreads : WF_vars(\E net \in Nets : thread_fetch(id, net))
    /\ WF_vars(on_pr_data_fetched)
    /\ WF_vars(on_pr_error)
    /\ WF_vars(timer_timeout)

SpecProgress == InitProgress /\ [][NextProgress]_vars /\ Fairness

(***************************************************************************)
(* add_pr under every answer of the remote API to its metadata call, on    *)
(* the lists of the saved files and on what add_pr and remove_pr make of   *)
(* them.                                                                   *)
(***************************************************************************)
\* longest watch list of this specification
MaxAdds == 2

AddFiles == {NoFile, CfgSaved, CfgLegacy}

\* the answers to the get_pr_status of add_pr
AddNets ==
    {[meta |-> m, ci |-> c, reviews |-> r] :
        m \in MetaResponses,
        c \in {Http(200, [state |-> "success"]), Raised("Timeout")},
        r \in {Http(200, <<Review("bob", "APPROVED")>>), Http(500, NoBody)}}

InitAdd == InitWith(AddFiles)

NextAdd ==
    \/ \E owner \in Owners, repo \in Repos, pr_id \in PrIds, net \in AddNets :
            /\ Len(pr_list) < MaxAdds
            /\ add_pr(owner, repo, pr_id, net)
    \/ \E selected_rows \in Selections : remove_pr(selected_rows)

SpecAdd == InitAdd /\ [][NextAdd]_vars

(***************************************************************************)
(* Properties.                                                             *)
(***************************************************************************)
\* a fetch cycle is in flight: the thread of self.fetch_thread is running
CycleInFlight == fetch_thread # 0 /\ isRunning(fetch_thread, threads)

\* the threads that a step has started
Started == DOMAIN threads' \ DOMAIN threads

SameIdentity(p, q) ==
    p.owner = q.owner /\ p.repo = q.repo /\ p.pull_number = q.pull_number

\* C1: single-flight: in every reachable state at most one fetch cycle is in
\* flight, that is, at most one FetchThread is executing run()
C1_SingleFlight == Cardinality(DOMAIN threads) <= 1

\* a cycle is in flight, has delivered a result to the queue, and the repeat
\* timer is armed, so that a tick can arrive during the cycle
C1_Witness ==
    /\ monitoring
    /\ timer_active
    /\ CycleInFlight
    /\ signals # <<>>

\* C2: a timer tick or a manual refresh of the running scheduler that arrives
\* while a cycle is in flight changes neither the watch list, the countdown,
\* the in-flight cycle nor the queued results; and neither the step that
\* completes a cycle nor the slot of a result starts a thread (the dropped
\* tick was not queued)
C2_SkippedTickIsNoOp ==
    [][/\ ((timer_timeout \/ (manual_refresh /\ monitoring)) /\ CycleInFlight)
            => UNCHANGED <<pr_list, remaining_seconds, fetch_thread, threads,
                           signals, monitoring, timer_active, countdown_active>>
       /\ ((\E id \in 1..MaxThreads : thread_next(id))
                \/ on_pr_data_fetched \/ on_pr_error)
            => (Started = {} /\ fetch_thread' = fetch_thread)]_vars

\* the scheduler runs with its repeat timer armed while the cycle that start
\* began is past its first item: the state a dropped tick arrives in and leaves
C2_Witness ==
    /\ monitoring
    /\ timer_active
    /\ CycleInFlight
    /\ threads[fetch_thread].idx >= 1
    /\ remaining_seconds = interval - 1

\* C3 (as claimed): every accepted start, a restart while the previous cycle
\* is draining included, starts exactly one fetch cycle
C3_StartBeginsOneCycle ==
    [][(start_monitoring /\ pr_list # <<>>) => Cardinality(Started) = 1]_vars

\* C4: start on an empty watch list shows the warning and changes nothing
\* else: the scheduler stays idle, no timer is armed, no cycle is started
C4_StartOnEmptyRejected ==
    [][(start_monitoring /\ pr_list = <<>>)
        => /\ msg_box' = WarnNoPr
           /\ UNCHANGED <<monitoring, pr_list, timer_active, countdown_active,
                          remaining_seconds, interval, last_refresh_time,
                          fetch_thread, threads, signals, config_file>>]_vars

\* start has been rejected on the empty list
C4_Witness ==
    /\ msg_box = WarnNoPr
    /\ pr_list = <<>>
    /\ ~monitoring
    /\ ~timer_active
    /\ ~countdown_active
    /\ threads = <<>>

\* the identity (owner, repo, pr_id) is in the list
Watched(list, owner, repo, pr_id) ==
    \E i \in 1..Len(list) :
        list[i].owner = owner /\ list[i].repo = repo /\ list[i].pull_number = pr_id

\* C5 (as claimed): add_pr of an identity that is in the list, by an earlier
\* add or by load_config, shows the duplicate warning and leaves the list
\* unchanged
C5_DuplicateAddRejected ==
    [][\A owner \in Owners, repo \in Repos, pr_id \in LoadPrIds :
        ((\E net \in Nets : add_pr(owner, repo, pr_id, net))
            /\ Watched(pr_list, owner, repo, pr_id))
        => (msg_box' = WarnDuplicate /\ pr_list' = pr_list)]_vars

\* C6 (as claimed): no two entries of the watch list have the same identity
C6_UniqueIdentities ==
    \A i, j \in 1..Len(pr_list) : SameIdentity(pr_list[i], pr_list[j]) => i = j

\* C7 (as claimed): the url of every entry is the URL built from its identity
C7_UrlFromIdentity ==
    \A i \in 1..Len(pr_list) :
        pr_list[i].url = FormatUrl(pr_list[i].owner, pr_list[i].repo,
                                   pr_list[i].pull_number)

RECURSIVE KeptFrom(_, _, _)
\* the entries of list from position i on whose (0-based) row is not in rows
KeptFrom(list, rows, i) ==
    IF i > Len(list) THEN <<>>
    ELSE (IF (i - 1) \in rows THEN <<>> ELSE <<list[i]>>) \o KeptFrom(list, rows, i + 1)

\* C8: remove_pr of a non-empty set of rows leaves exactly the entries of the
\* list before the call whose row is not selected, in their order; rows out
\* of range are ignored
C8_RemovesSelectedRows ==
    [][\A rows \in SUBSET (0..MaxRows) :
        (remove_pr(rows) /\ rows # {}) => pr_list' = KeptFrom(pr_list, rows, 1)]_vars

\* remove_pr has saved what it left of a longer list: one entry, the PR 2
\* (as rows {0, 2} of the list 1, 2, 3 leave it)
C8_Witness ==
    /\ Len(pr_list) = 1
    /\ pr_list[1].pull_number = <<"2">>
    /\ config_file.config.pr_list = <<SavedPr(pr_list[1])>>

\* C9: the slot of a fetch result (data_fetched or error_occurred) leaves
\* the length of the list and the identity and url of every entry unchanged,
\* changes the status of no entry but one whose url is the result's, and
\* leaves the list unchanged when no entry has that url
C9_ResultKeepsMembership ==
    [][(on_pr_data_fetched \/ on_pr_error)
        => /\ Len(pr_list') = Len(pr_list)
           /\ \A i \in 1..Len(pr_list) :
                /\ SameIdentity(pr_list'[i], pr_list[i])
                /\ pr_list'[i].url = pr_list[i].url
                /\ pr_list'[i].status # pr_list[i].status
                     => pr_list[i].url = Head(signals).url
           /\ (\A i \in 1..Len(pr_list) : pr_list[i].url # Head(signals).url)
                => pr_list' = pr_list]_vars

\* a result is queued for a PR that was removed while its fetch was
\* outstanding, and the list still holds another PR
C9_Witness ==
    /\ signals # <<>>
    /\ pr_list # <<>>
    /\ \A i \in 1..Len(pr_list) : pr_list[i].url # Head(signals).url

\* C10: a failed metadata call makes the thread emit error_occurred with the
\* message of the failure, and the slot of that signal keeps the list as it
\* is but for the status of the first entry with the signal's url, which
\* becomes: state "error", the message in the title, ci_status and
\* review_status "unknown"
C10_ErrorStatus ==
    [][/\ \A id \in 1..MaxThreads, net \in Nets :
            (thread_fetch(id, net) /\ ~get_pr_info(net.meta).ok)
            => signals'[Len(signals')] =
                    [sig |-> "error_occurred", url |-> threads[id].cur.url,
                     error_msg |-> get_pr_info(net.meta).error]
       /\ \A i \in 1..Len(pr_list) :
            (/\ on_pr_error
             /\ pr_list[i].url = Head(signals).url
             /\ \A j \in 1..(i - 1) : pr_list[j].url # Head(signals).url)
            => /\ Len(pr_list') = Len(pr_list)
               /\ SameIdentity(pr_list'[i], pr_list[i])
               /\ pr_list'[i].status.state = "error"
               /\ pr_list'[i].status.title = <<"error: ">> \o Head(signals).error_msg
               /\ pr_list'[i].status.ci_status = "unknown"
               /\ pr_list'[i].status.review_status = "unknown"]_vars

\* an entry of the list carries the error status of a failed fetch
C10_Witness ==
    \E i \in 1..Len(pr_list) :
        /\ Get(pr_list[i].status, "state", "") = "error"
        /\ pr_list[i].status.title = <<"error: ">> \o MsgNotFound

\* the metadata call of a fetch is answered with HTTP 200
MetaOk(net) == net.meta.kind = "http" /\ net.meta.code = 200

\* the first entry of the list with the url given, 0 if there is none
FirstWithUrl(list, url) ==
    LET found == {i \in 1..Len(list) : list[i].url = url}
    IN  IF found = {} THEN 0 ELSE Min(found)

\* C11: a failed metadata call of one PR does not end the cycle and touches
\* no other PR: the thread emits the error and stays in its loop at the same
\* position, the loop takes every next item of the list until the list is
\* exhausted, the slot of an error changes no entry with another url, and
\* the slot of a result gives the entry of that url the status fetched for
\* it and changes no other entry
C11_FailureIsPerPr ==
    [][/\ \A id \in 1..MaxThreads, net \in Nets :
            (thread_fetch(id, net) /\ ~MetaOk(net))
            => /\ id \in DOMAIN threads'
               /\ threads'[id].idx = threads[id].idx
               /\ threads'[id].pc = "iter"
               /\ signals'[Len(signals')].sig = "error_occurred"
               /\ signals'[Len(signals')].url = threads[id].cur.url
               /\ pr_list' = pr_list
       /\ \A id \in 1..MaxThreads :
            (thread_next(id) /\ threads[id].idx < Len(pr_list))
            => /\ id \in DOMAIN threads'
               /\ threads'[id].pc = "fetch"
               /\ threads'[id].cur.url = pr_list[threads[id].idx + 1].url
               /\ SameIdentity(threads'[id].cur, pr_list[threads[id].idx + 1])
       /\ on_pr_error
            => \A i \in 1..Len(pr_list) :
                 pr_list[i].url # Head(signals).url => pr_list'[i] = pr_list[i]
       /\ on_pr_data_fetched
            => \A i \in 1..Len(pr_list) :
                 IF i = FirstWithUrl(pr_list, Head(signals).url)
                   THEN /\ pr_list'[i].status = Head(signals).pr_status
                        /\ SameIdentity(pr_list'[i].status, pr_list[i])
                   ELSE pr_list'[i] = pr_list[i]]_vars

\* the fetch of the first PR of the list has failed and the cycle has gone
\* on: the thread is past the second item, and the second entry carries the
\* status that the thread fetched for it
C11_Witness ==
    /\ Len(pr_list) = 2
    /\ Get(pr_list[1].status, "state", "") = "error"
    /\ \E id \in DOMAIN threads : threads[id].idx = 2 /\ threads[id].pc = "iter"
    /\ "owner" \in DOMAIN pr_list[2].status
    /\ SameIdentity(pr_list[2].status, pr_list[2])
    /\ pr_list[2].status.state = "open"

\* a call has failed: an exception, or an answer other than HTTP 200
CallFailed(response) == response.kind # "http" \/ response.code # 200

\* the signal that the step has emitted
LastSignal == signals'[Len(signals')]

\* C12: get_pr_status raises exactly when its metadata call fails; when the
\* metadata call succeeds, a failed CI call gives ci_status "unknown", a
\* failed review call gives review_status "unknown", and the fields of the
\* metadata are those of the answer
C12_OnlyMetadataIsFatal ==
    [][\A id \in 1..MaxThreads, net \in StatusNets :
        thread_fetch(id, net)
        => /\ (LastSignal.sig = "error_occurred") <=> CallFailed(net.meta)
           /\ (LastSignal.sig = "data_fetched") <=> ~CallFailed(net.meta)
           /\ ~CallFailed(net.meta)
                => LET pr_status == LastSignal.pr_status
                       body      == net.meta.json
                   IN  /\ CallFailed(net.ci) => pr_status.ci_status = "unknown"
                       /\ CallFailed(net.reviews) => pr_status.review_status = "unknown"
                       /\ pr_status.title = body.title
                       /\ pr_status.state = body.state
                       /\ pr_status.merged = body.merged
                       /\ body = PrBodyFull
                            => /\ pr_status.author = body.user.login
                               /\ pr_status.created_at = "2024-05-01 10:00:00"
                               /\ pr_status.updated_at = "2024-05-01 10:00:00"
                               /\ pr_status.mergeable = body.mergeable
                               /\ pr_status.mergeable_state = body.mergeable_state
                               /\ pr_status.draft = body.draft
                               /\ pr_status.url = body.html_url]_vars

\* the watched PR carries a fetched status with the metadata of the answer,
\* the review status of the answer, and the CI status of a failed CI call
C12_Witness ==
    /\ Len(pr_list) = 1
    /\ "owner" \in DOMAIN pr_list[1].status
    /\ pr_list[1].status.title = PrBodyFull.title
    /\ pr_list[1].status.author = "carol"
    /\ pr_list[1].status.ci_status = "unknown"
    /\ pr_list[1].status.review_status = "approved"

\* the last review of the user in the list (0 if the user has none)
LastReviewOf(reviews, login) ==
    LET own == {i \in 1..Len(reviews) : reviews[i].user.login = login}
    IN  IF own = {} THEN 0 ELSE Max(own)

\* the states of the reviews that no later review of the same user follows
LatestStatesOf(reviews) ==
    {reviews[i].state :
        i \in {j \in 1..Len(reviews) : LastReviewOf(reviews, reviews[j].user.login) = j}}

\* C13: the review status of a fetch is "changes_requested" if the last
\* review of some reviewer is CHANGES_REQUESTED, else "approved" if the last
\* review of some reviewer is APPROVED, else "pending"; no reviews give
\* "pending"; (alice APPROVED, bob CHANGES_REQUESTED, alice APPROVED) gives
\* "changes_requested" and (alice APPROVED) gives "approved"
C13_ReviewReduction ==
    [][\A id \in 1..MaxThreads, net \in ReviewNets :
        thread_fetch(id, net)
        => LET reviews == net.reviews.json
               latest  == LatestStatesOf(reviews)
               overall == LastSignal.pr_status.review_status
           IN  /\ overall = IF "CHANGES_REQUESTED" \in latest THEN "changes_requested"
                             ELSE IF "APPROVED" \in latest THEN "approved"
                             ELSE "pending"
               /\ reviews = <<>> => overall = "pending"
               /\ reviews = <<Review("alice", "APPROVED")>> => overall = "approved"
               /\ reviews = <<Review("alice", "APPROVED"),
                              Review("bob", "CHANGES_REQUESTED"),
                              Review("alice", "APPROVED")>>
                    => overall = "changes_requested"]_vars

\* a fetch whose CI status is that of ReviewNets has found changes requested
C13_Witness ==
    /\ signals # <<>>
    /\ Head(signals).sig = "data_fetched"
    /\ Head(signals).pr_status.ci_status = "success"
    /\ Head(signals).pr_status.review_status = "changes_requested"

\* the kind of outcome of the metadata call, as the remote API gave it
Outcome(response) ==
    IF response.kind = "Timeout" THEN <<"Timeout">>
    ELSE IF response.kind = "ConnectionError" THEN <<"NetworkError">>
    ELSE IF response.kind # "http" THEN <<"RequestFailed">>
    ELSE IF response.code = 200 THEN <<"Success">>
    ELSE IF response.code = 404 THEN <<"NotFound">>
    ELSE IF response.code = 403 THEN <<"RateLimited">>
    ELSE <<"UnexpectedStatus", ToString(response.code)>>

\* the kind of outcome that the caller reads from the message of the error
Classify(error_msg) ==
    IF error_msg = MsgNotFound THEN <<"NotFound">>
    ELSE IF error_msg = MsgRateLimited THEN <<"RateLimited">>
    ELSE IF error_msg = MsgTimeout THEN <<"Timeout">>
    ELSE IF error_msg = MsgConnection THEN <<"NetworkError">>
    ELSE IF error_msg[1] = "API request failed: " THEN <<"UnexpectedStatus", error_msg[2]>>
    ELSE <<"RequestFailed">>

\* C14: the metadata call succeeds on HTTP 200 only, and the message of its
\* error tells the outcomes apart: 404, 403, a timeout, a refused
\* connection, and any other status together with its code
C14_DistinctErrors ==
    [][\A id \in 1..MaxThreads, net \in StatusNets :
        thread_fetch(id, net)
        => /\ (LastSignal.sig = "data_fetched") <=> Outcome(net.meta) = <<"Success">>
           /\ LastSignal.sig = "error_occurred"
                => /\ Classify(LastSignal.error_msg) = Outcome(net.meta)
                   /\ \A other \in MetaResponses :
                        Outcome(other) # Outcome(net.meta)
                        => Emitted(threads[id].cur, [net EXCEPT !.meta = other])
                             # LastSignal]_vars

\* the error of an HTTP 500 is queued: a message that carries the code
C14_Witness ==
    /\ signals # <<>>
    /\ Head(signals).sig = "error_occurred"
    /\ Head(signals).error_msg = MsgApiFailed(500)
    /\ Classify(Head(signals).error_msg) = <<"UnexpectedStatus", "500">>

\* C15: get_user_repos lets no exception escape; it requests the listing of
\* the organization first and the listing of the user only when the first
\* answer is HTTP 404; it returns the names of the repositories of an answer
\* with HTTP 200, in their order, and the empty list on every other outcome
\* (another status, a timeout, a refused connection, an item without name);
\* so the thread of load_repos always ends by updating repo_combo
C15_ListingNeverRaises ==
    [][\A i \in 1..MaxLoads, net \in RepoNets :
        fetch_repos(i, net)
        => LET owner      == repo_loads[i]
               result     == get_user_repos(owner, net)
               notfound   == net.org.kind = "http" /\ net.org.code = 404
               answer     == IF notfound THEN net.user ELSE net.org
               wellformed == /\ ~CallFailed(answer)
                             /\ \A k \in 1..Len(answer.json) :
                                    "name" \in DOMAIN answer.json[k]
               expected   == IF wellformed
                               THEN [k \in 1..Len(answer.json) |-> answer.json[k].name]
                               ELSE <<>>
           IN  /\ ~result.raised
               /\ result.calls[1] = ListingCall("orgs", owner)
               /\ Len(result.calls) = IF notfound THEN 2 ELSE 1
               /\ notfound => result.calls[2] = ListingCall("users", owner)
               /\ result.repos = expected
               /\ repo_combo' = IF expected # <<>> THEN expected ELSE <<RepoNone>>
               /\ Len(repo_loads') = Len(repo_loads) - 1]_vars

\* repo_combo shows the repositories of the listing of the user, which only
\* the fallback after a 404 of the organization requests, and no load is
\* outstanding
C15_Witness ==
    /\ repo_combo = <<UserRepos[1].name>>
    /\ repo_loads = <<>>

\* C16: manual_refresh while the scheduler is not running shows the notice
\* and changes nothing else; while the scheduler is running, a step of
\* manual_refresh is a step of the slot of the repeat timer and conversely
\* (the same fetch_and_display, the skip when a cycle is in flight included)
C16_ManualRefresh ==
    [][/\ (manual_refresh /\ ~monitoring)
            => /\ msg_box' = InfoStartFirst
               /\ UNCHANGED <<monitoring, pr_list, timer_active, countdown_active,
                              remaining_seconds, interval, last_refresh_time,
                              fetch_thread, threads, signals, config_file,
                              settings>>
       /\ (manual_refresh /\ monitoring) => timer_timeout
       /\ (timer_timeout /\ monitoring) => manual_refresh]_vars

\* manual_refresh has been rejected while the scheduler is stopped and the
\* cycle of the earlier run is still draining
C16_Witness ==
    /\ msg_box = InfoStartFirst
    /\ ~monitoring
    /\ pr_list # <<>>
    /\ Cardinality(DOMAIN threads) = 1

\* the status that the slot of the signal gives to the entry of the result
AppliedStatus(signal) ==
    IF signal.sig = "data_fetched" THEN signal.pr_status
    ELSE ErrorStatus(signal.url, signal.error_msg)

\* C17 (as claimed): stop_monitoring stops the repeat timer and leaves the
\* cycle in flight and its queued results alone; no step that leaves the
\* scheduler stopped starts a cycle; and the result of a fetch that arrives
\* while the scheduler is stopped becomes the status of an entry of its
\* identity whenever that identity is in the list
C17_StopDrains ==
    [][/\ stop_monitoring
            => /\ ~timer_active'
               /\ UNCHANGED <<pr_list, fetch_thread, threads, signals>>
       /\ ~monitoring' => Started = {}
       /\ ((on_pr_data_fetched \/ on_pr_error) /\ ~monitoring)
            => LET identity == parse_pr_url(Head(signals).url)
               IN  (\E i \in 1..Len(pr_list) : SameIdentity(pr_list[i], identity))
                   => \E i \in 1..Len(pr_list') :
                        /\ SameIdentity(pr_list'[i], identity)
                        /\ pr_list'[i].status = AppliedStatus(Head(signals))]_vars

\* the state that the next start of the application loads from the file is
\* the state in memory: the same credential, the same watch list in the
\* same order with the same cached statuses, the same interval and
\* last-refresh time
PersistedIsMemory ==
    LET loaded == load_config(config_file)
    IN  /\ loaded.authorization = authorization
        /\ Len(loaded.pr_list) = Len(pr_list)
        /\ \A i \in 1..Len(pr_list) : SavedPr(loaded.pr_list[i]) = SavedPr(pr_list[i])
        /\ loaded.interval = interval
        /\ loaded.last_refresh_time = last_refresh_time

\* C18 (as claimed): on a disk that can be written, after add_pr or
\* remove_pr has changed the list, after set_token has set or cleared the
\* token, after stop_monitoring, and after the slot of a fetch result or of
\* a fetch error has run, the file holds the state in memory
C18_SavedAfterMutation ==
    [][(/\ disk_writable
        /\ \/ (\E owner \in Owners, repo \in Repos, pr_id \in LoadPrIds, net \in Nets :
                    add_pr(owner, repo, pr_id, net)) /\ pr_list' # pr_list
           \/ (\E selected_rows \in Selections : remove_pr(selected_rows))
                    /\ pr_list' # pr_list
           \/ set_token
           \/ stop_monitoring
           \/ on_pr_data_fetched
           \/ on_pr_error)
        => PersistedIsMemory']_vars

\* C19: when the file cannot be written, add_pr, remove_pr, stop_monitoring
\* and the slot of a fetch result leave the list and the scheduler exactly
\* as they do when the file is written, show no error, and leave the file
\* as it was
C19_SaveFailureIsHarmless ==
    [][~disk_writable
        => /\ \A owner \in Owners, repo \in Repos, pr_id \in LoadPrIds, net \in Nets :
                (add_pr(owner, repo, pr_id, net)
                    /\ ~AlreadyListed(pr_list, owner, repo, pr_id))
                => /\ pr_list' = AppendPr(pr_list, owner, repo, pr_id, net)
                   /\ msg_box' = NoDialog
           /\ \A selected_rows \in Selections :
                (remove_pr(selected_rows) /\ selected_rows # {})
                => /\ pr_list' = DeleteRows(pr_list, selected_rows)
                   /\ msg_box' = NoDialog
           /\ stop_monitoring
                => /\ ~monitoring' /\ ~timer_active' /\ ~countdown_active'
                   /\ msg_box' = NoDialog
                   /\ UNCHANGED <<pr_list, fetch_thread, threads, signals>>
           /\ on_pr_data_fetched
                => /\ pr_list' = SetStatus(pr_list, Head(signals).url,
                                           Head(signals).pr_status)
                   /\ last_refresh_time' = Now
                   /\ signals' = Tail(signals)
                   /\ msg_box' = NoDialog
           /\ ((\E owner \in Owners, repo \in Repos, pr_id \in LoadPrIds, net \in Nets :
                    add_pr(owner, repo, pr_id, net))
                \/ (\E selected_rows \in Selections : remove_pr(selected_rows))
                \/ stop_monitoring
                \/ on_pr_data_fetched)
                => UNCHANGED <<config_file, interval, token_input, authorization>>]_vars

\* on a disk that cannot be written, remove_pr has left one entry in memory
\* while the file still holds the two entries it held at the start
C19_Witness ==
    /\ ~disk_writable
    /\ Len(pr_list) = 1
    /\ Len(config_file.config.pr_list) = 2
    /\ msg_box = NoDialog

\* C20 (as claimed): the state that load_config reads from the file that
\* save_config writes is the state saved: the same token, owner list,
\* interval and last-refresh time, and the same watch list, each entry with
\* its identity, url and status
C20_SaveLoadRoundTrip ==
    LET file   == [exists |-> TRUE,
                   config |-> ConfigDict(token_input, pr_list, interval, owner_combo,
                                         last_refresh_time)]
        loaded == load_config(file)
    IN  /\ loaded.token_input = token_input
        /\ loaded.owner_combo = owner_combo
        /\ loaded.interval = interval
        /\ loaded.last_refresh_time = last_refresh_time
        /\ loaded.pr_list = pr_list

\* C21: load_config drops every item of pr_list that is neither a URL
\* string nor a recognised object without failing: the entries of all other
\* items are in pr_list in the order of the file, and the interval and the
\* last refresh time of the file are loaded.  (No handler of this
\* specification changes the list, the interval or the file.)
C21_LoadDropsUnrecognized ==
    LET items    == config_file.config.pr_list
        good     == SelectSeq(items, LAMBDA item : ~LoadRaises(item))
        expected == LoadedList(good)
    IN  config_file.exists =>
            /\ SelectSeq(pr_list, LAMBDA pr : pr.url # NullCachedItem.d.url) = expected
            /\ interval = config_file.config.interval
            /\ monitoring \/ last_refresh_time = config_file.config.last_refresh_time

\* a name of an identity: not empty, and without a slash
ValidName(text) == text # <<>> /\ \A i \in 1..Len(text) : text[i] # "/"

\* url is https://github.com/{owner}/{repo}/pull/{number} for an identity
\* with valid names and a number of decimal digits
IsCanonical(url) ==
    \E o \in UrlNames, r \in UrlNames, n \in UrlNumbers :
        /\ ValidName(o) /\ ValidName(r) /\ isdigit(n)
        /\ url = FormatUrl(o, r, n)

\* C22: for every URL in the watch list that is in the canonical format,
\* parse_pr_url followed by the format of add_pr gives the identical URL;
\* and for every identity in the watch list with valid names and a number
\* of digits, parse_pr_url of its formatted URL gives the same identity.
C22_ParseFormatRoundTrip ==
    \A i \in 1..Len(pr_list) :
        LET pr == pr_list[i]
            id == parse_pr_url(pr.url)
            of == parse_pr_url(FormatUrl(pr.owner, pr.repo, pr.pull_number))
        IN  /\ IsCanonical(pr.url) =>
                /\ id # None
                /\ FormatUrl(id.owner, id.repo, id.pull_number) = pr.url
            /\ (ValidName(pr.owner) /\ ValidName(pr.repo) /\ isdigit(pr.pull_number)) =>
                /\ of # None
                /\ of.owner = pr.owner
                /\ of.repo = pr.repo
                /\ of.pull_number = pr.pull_number

\* a canonical URL with a number of two digits was loaded from a file and
\* an identity with a name of several characters was added
C22_Witness ==
    /\ Len(pr_list) = 2
    /\ pr_list[1].url = FormatUrl(<<"o">>, <<"r">>, <<"2", "0">>)
    /\ pr_list[1].pull_number = <<"2", "0">>
    /\ pr_list[2].owner = <<"a", "-", "b">>
    /\ pr_list[2].pull_number = <<"2", "0">>
    /\ IsCanonical(pr_list[2].url)

\* C23: set_token leaves the header 'token c' for the stripped text c of
\* token_input, and no header when c is empty, and changes no request
\* already sent; every request sent, also in a fetch cycle that was in
\* flight when set_token ran, is appended to the requests sent with the
\* header of the session at that moment.
C23_HeaderAtIssueTime ==
    [][/\ set_token =>
            /\ authorization' = (IF strip(token_input) # <<>>
                                   THEN TokenLit \o strip(token_input) ELSE <<>>)
            /\ requests' = requests
       /\ requests' # requests =>
            /\ Len(requests') = Len(requests) + 1
            /\ SubSeq(requests', 1, Len(requests)) = requests
            /\ requests'[Len(requests')].header = authorization]_vars

\* in one cycle the request for the metadata of the first entry went out
\* with the token and, after the token was cleared, the next request of
\* the same fetch went out without a header; the cycle is still in flight
C23_Witness ==
    /\ Len(requests) = 2
    /\ requests[1].call = "pulls"
    /\ requests[1].header = TokenLit \o <<"t">>
    /\ requests[2].url = requests[1].url
    /\ requests[2].header = <<>>
    /\ authorization = <<>>
    /\ CycleInFlight

\* the metadata in response carries a head commit SHA
MetaHasSha(response) ==
    /\ "head" \in DOMAIN response.json
    /\ "sha" \in DOMAIN response.json.head
    /\ response.json.head.sha # ""

\* the thread that is inside get_pr_status for the entry of the request
Fetching(request) ==
    {id \in DOMAIN threads :
        threads[id].pc \in {"fetch", "ci", "reviews"} /\ threads[id].cur.url = request.url}

\* C27: within the fetch of one entry the CI request and the review request
\* are sent only after the metadata call has answered 200; the CI request
\* is sent only when that answer carries a head SHA, and otherwise the
\* result has ci_status "unknown" and the review request follows the
\* metadata request directly; when the metadata call fails the fetch ends
\* with the error and sends no further request.
C27_MetadataFirst ==
    [][requests' # requests =>
        LET request == requests'[Len(requests')]
        IN  \E id \in Fetching(request) :
                LET thread == threads[id]
                IN  /\ request.call = "pulls" =>
                        /\ thread.pc = "fetch"
                        /\ threads'[id].pc \in {"ci", "reviews"} =>
                                /\ threads'[id].meta.kind = "http"
                                /\ threads'[id].meta.code = 200
                                /\ threads'[id].pc = "ci" <=> MetaHasSha(threads'[id].meta)
                        /\ threads'[id].pc \notin {"ci", "reviews"} =>
                                /\ threads'[id].pc = "iter"
                                /\ LastSignal.sig = "error_occurred"
                                /\ LastSignal.url = request.url
                    /\ request.call = "status" =>
                        /\ thread.pc = "ci"
                        /\ thread.meta.kind = "http" /\ thread.meta.code = 200
                        /\ MetaHasSha(thread.meta)
                        /\ requests[Len(requests)].call = "pulls"
                        /\ requests[Len(requests)].url = request.url
                    /\ request.call = "reviews" =>
                        /\ thread.pc = "reviews"
                        /\ thread.meta.kind = "http" /\ thread.meta.code = 200
                        /\ requests[Len(requests)].url = request.url
                        /\ requests[Len(requests)].call =
                                (IF MetaHasSha(thread.meta) THEN "status" ELSE "pulls")
                        /\ LastSignal.sig = "data_fetched"
                        /\ ~MetaHasSha(thread.meta) =>
                                LastSignal.pr_status.ci_status = "unknown"]_vars

\* the metadata of the first entry had no head SHA, so its review request
\* followed at once, and the metadata call of the second entry failed: the
\* third request is the last of the cycle
C27_Witness ==
    /\ Len(requests) = 3
    /\ requests[1].call = "pulls"
    /\ requests[2].call = "reviews"
    /\ requests[2].url = requests[1].url
    /\ requests[3].call = "pulls"
    /\ requests[3].url # requests[1].url
    /\ signals # <<>>
    /\ signals[Len(signals)].sig = "error_occurred"
    /\ \A id \in DOMAIN threads : threads[id].pc = "iter"

\* the metadata requests of the cycle for the entry with this URL
FetchesOf(url) ==
    {k \in 1..Len(requests) : requests[k].call = "pulls" /\ requests[k].url = url}

\* C24: when the thread of a cycle leaves its loop, every entry of the watch
\* list has been fetched exactly once in the cycle, whether or not entries
\* were added or removed while the cycle ran.
C24_EachEntryFetchedOnce ==
    [][DOMAIN threads' # DOMAIN threads /\ DOMAIN threads' \subseteq DOMAIN threads =>
        \A i \in 1..Len(pr_list) : Cardinality(FetchesOf(pr_list[i].url)) = 1]_vars

\* a thread is inside get_pr_status for the entry with this URL
Outstanding(url) ==
    \E id \in DOMAIN threads :
        threads[id].pc \in {"fetch", "ci", "reviews"} /\ threads[id].cur.url = url

\* C25: the fetches of a cycle run concurrently, one for each entry of the
\* watch list: while the fetch of one entry is outstanding, the fetch of
\* every entry that the cycle has not fetched yet is outstanding too, so
\* that no result waits for a slower fetch.
C25_FetchesRunConcurrently ==
    \A id \in DOMAIN threads :
        threads[id].pc \in {"fetch", "ci", "reviews"} =>
            \A i \in 1..Len(pr_list) :
                i > threads[id].idx => Outstanding(pr_list[i].url)

\* C26: the result of each fetch is delivered when that fetch completes and
\* merged on its own: the step that ends the fetch of an entry queues the
\* signal of that entry, the step that ends the loop queues nothing, and
\* the slot gives the first entry with the URL of the signal its status,
\* whether or not the cycle is still in flight.
C26_ResultsAsTheyLand ==
    [][/\ \A id \in DOMAIN threads :
            /\ (/\ threads[id].pc \in {"fetch", "ci", "reviews"}
                /\ id \in DOMAIN threads'
                /\ threads'[id].pc = "iter")
                    => /\ Len(signals') = Len(signals) + 1
                       /\ SubSeq(signals', 1, Len(signals)) = signals
                       /\ LastSignal.url = threads[id].cur.url
            /\ id \notin DOMAIN threads' => signals' = signals
       /\ (signals # <<>> /\ signals' = Tail(signals))
            => LET row == FirstWithUrl(pr_list, Head(signals).url)
               IN  row # 0 => pr_list'[row].status = AppliedStatus(Head(signals))]_vars

\* the result of the first entry is in the watch list while the thread of
\* the cycle is waiting for the metadata of the second entry
C26_Witness ==
    /\ monitoring
    /\ CycleInFlight
    /\ Len(pr_list) = 2
    /\ pr_list[1].status # None
    /\ pr_list[1].status.title = <<"F">>
    /\ threads[fetch_thread].pc = "fetch"
    /\ threads[fetch_thread].cur.url = pr_list[2].url
    /\ signals = <<>>

\* C28: every step that starts a fetch cycle leaves the countdown at the
\* interval; a second of the countdown timer while monitoring takes one off
\* the countdown, but not below zero; while monitoring the countdown is
\* between zero and the interval; and while monitoring is off no step
\* changes the countdown.
C28_Countdown ==
    [][/\ Started # {} => remaining_seconds' = interval
       /\ (countdown_timeout /\ monitoring)
            => remaining_seconds' = (IF remaining_seconds > 0
                                       THEN remaining_seconds - 1 ELSE 0)
       /\ monitoring' => (0 <= remaining_seconds' /\ remaining_seconds' <= interval')
       /\ (~monitoring /\ ~monitoring') => remaining_seconds' = remaining_seconds]_vars

\* the URLs of the entries of a list, in its order
UrlsOf(list) == [i \in 1..Len(list) |-> list[i].url]

\* the URLs of the items of a saved pr_list, in its order
SavedUrlsOf(items) == [i \in 1..Len(items) |-> items[i].d.url]

\* C29: insertion order is kept: a step that adds an entry leaves the list
\* as it was with the new entry after its last entry; no step (add_pr,
\* remove_pr, the slots of the results) changes the relative order of two
\* entries that are in the list before and after it; and save_config writes
\* the entries in the order of the list.
C29_InsertionOrder ==
    [][/\ Len(pr_list') > Len(pr_list)
            => /\ Len(pr_list') = Len(pr_list) + 1
               /\ SubSeq(pr_list', 1, Len(pr_list)) = pr_list
       /\ \A i, j \in 1..Len(pr_list) :
            (/\ i < j
             /\ FirstWithUrl(pr_list', pr_list[i].url) # 0
             /\ FirstWithUrl(pr_list', pr_list[j].url) # 0)
                => FirstWithUrl(pr_list', pr_list[i].url)
                        < FirstWithUrl(pr_list', pr_list[j].url)
       /\ config_file' # config_file
            => SavedUrlsOf(config_file'.config.pr_list) = UrlsOf(pr_list')]_vars

\* the first entry was removed and added again: it is the last entry of
\* the list and of the saved file, and a result has been merged since
C29_Witness ==
    /\ UrlsOf(pr_list) = <<Url2, Url1>>
    /\ SavedUrlsOf(config_file.config.pr_list) = <<Url2, Url1>>
    /\ pr_list[1].status # None
    /\ pr_list[1].status.title = <<"F">>

\* the identities of the entries of a list
IdentitiesOf(list) ==
    {<<list[i].owner, list[i].repo, list[i].pull_number>> : i \in 1..Len(list)}

\* C30: while monitoring the watch list is not empty and its membership is
\* frozen: start_monitoring turns monitoring on only for a list that is not
\* empty and leaves the list alone, and every step from a monitoring state
\* to a monitoring state leaves the set of identities, and the length of
\* the list, as they were.
C30_FrozenWhileMonitoring ==
    [][/\ monitoring' => pr_list' # <<>>
       /\ (~monitoring /\ monitoring') => pr_list' = pr_list
       /\ (monitoring /\ monitoring')
            => /\ IdentitiesOf(pr_list') = IdentitiesOf(pr_list)
               /\ Len(pr_list') = Len(pr_list)]_vars

\* monitoring was started on two entries, and the result of the second has
\* been merged while a later cycle is in flight
C30_Witness ==
    /\ monitoring
    /\ CycleInFlight
    /\ Len(pr_list) = 2
    /\ pr_list[2].status # None
    /\ threads[fetch_thread].idx = 1

\* C31: every FetchThread that is started ends its run(), after which
\* fetch_and_display can start the next; and while monitoring stays on,
\* every entry of the watch list that has no status gets one, fetched or
\* built by on_pr_error.
C31_Progress ==
    /\ \A id \in 1..MaxThreads :
            (id \in DOMAIN threads) ~> (id \notin DOMAIN threads)
    /\ \A i \in 1..MaxRows :
            (monitoring /\ i <= Len(pr_list) /\ pr_list[i].status = None)
                ~> (~monitoring \/ (i <= Len(pr_list) /\ pr_list[i].status # None))

\* monitoring is on, the cycle has ended, and both entries have a status:
\* one fetched, one built from the error of its fetch
C31_Witness ==
    /\ monitoring
    /\ threads = <<>>
    /\ signals = <<>>
    /\ Len(pr_list) = 2
    /\ pr_list[1].status # None
    /\ pr_list[1].status.state = "error"
    /\ pr_list[2].status # None
    /\ pr_list[2].status.state = "open"

\* C32: add_pr of an owner, a repository and a PR ID of digits whose
\* identity is not in the watch list leaves the list as it was with one
\* new entry of that identity after its last entry, whatever the remote API
\* answers: the entry has the status fetched when the metadata call
\* answers 200, and the status None, not an error status, when it fails.
C32_AddAlwaysAppends ==
    [][\A owner \in Owners, repo \in Repos, pr_id \in PrIds, net \in AddNets :
        (/\ add_pr(owner, repo, pr_id, net)
         /\ isdigit(pr_id)
         /\ ~Watched(pr_list, owner, repo, pr_id))
            => /\ Len(pr_list') = Len(pr_list) + 1
               /\ SubSeq(pr_list', 1, Len(pr_list)) = pr_list
               /\ LET entry == pr_list'[Len(pr_list')]
                  IN  /\ entry.owner = owner
                      /\ entry.repo = repo
                      /\ entry.pull_number = pr_id
                      /\ MetaOk(net) =>
                            /\ entry.status # None
                            /\ entry.status.state = Get(net.meta.json, "state", "unknown")
                            /\ entry.status.title = Get(net.meta.json, "title", <<"N/A">>)
                      /\ ~MetaOk(net) => entry.status = None]_vars

\* two entries were added: the metadata call of the first failed and that
\* of the second answered 200
C32_Witness ==
    /\ Len(pr_list) = 2
    /\ pr_list[1].status = None
    /\ pr_list[1].pull_number = <<"1">>
    /\ pr_list[1].url = Url1
    /\ pr_list[2].status # None
    /\ pr_list[2].status.title = <<"F">>
    /\ config_file.exists
    /\ Len(config_file.config.pr_list) = 2

=============================================================================
